---- MODULE Spec2Model ----
(***************************************************************************)
(* A model of the raytracer: the colour type, the material validation, the *)
(* ray/primitive intersections, the shadow test, the recursive colour      *)
(* resolver get_color_pixel and the render loop raytrace.                  *)
(*                                                                         *)
(* Numbers.  The program computes in f64.  The model computes in decimal   *)
(* fixed point, in two formats:                                            *)
(*   - a length (a coordinate, a distance t, a radius) is an integer count *)
(*     of 0.00001, so that TOLERANCE = 0.00001 is the integer 1;           *)
(*   - a number of the unit range (a colour channel, a material            *)
(*     coefficient, total_o1, a component of a unit vector) is an integer  *)
(*     count of 0.0001, so that 1.0 is CScale.                             *)
(* The inputs are chosen so that every operation on them is exact in these *)
(* formats (rays along a coordinate axis, perfect-square discriminants).   *)
(* NaN is a value of its own: it is what sqrt gives for a negative         *)
(* argument and what a configuration file can hold.                        *)
(***************************************************************************)
EXTENDS Integers, Sequences, FiniteSets, TLC

VARIABLES
    call,       \* the arguments of the pure function under evaluation
    result,     \* what that function returned
    scene,      \* the Scene being rendered (objects, lights, ambient, bg_color)
    stack,      \* the chain of nested get_color_pixel calls, outermost first
    ret,        \* the last get_color_pixel call that returned
    calls,      \* history: the get_color_pixel calls made for the current primary ray
    screen,     \* ScreenContextManager: width, height, framebuffer, color
    loop,       \* raytrace's position: pc, i, j
    writes,     \* history: per framebuffer cell, the pixels (i, j) plot_pixel wrote there
    observer    \* the Observer raytrace renders from

vars == <<call, result, scene, stack, ret, calls, screen, loop, writes, observer>>
pureVars == <<call, result>>
traceVars == <<scene, stack, ret, calls>>
renderVars == <<screen, loop, writes, observer>>

----------------------------------------------------------------------------
(* Fixed-point numbers *)

CScale == 10^4
One == CScale
Half == CScale \div 2
LScale == 10^5

\* constants.rs:2, in the length format (a count of 0.00001)
TOLERANCE == 1

\* a unit-range number in the length format, to compare it with TOLERANCE
ToL(x) == x * (LScale \div CScale)

NaN == 0 - 2^30
IsNan(x) == x = NaN

Abs(x) == IF x < 0 THEN -x ELSE x
Sign(x) == IF x < 0 THEN -1 ELSE IF x > 0 THEN 1 ELSE 0

\* f64::min, f64::max: the other argument when one is NaN
FMin(a, b) == IF IsNan(a) THEN b ELSE IF IsNan(b) THEN a ELSE IF a < b THEN a ELSE b
FMax(a, b) == IF IsNan(a) THEN b ELSE IF IsNan(b) THEN a ELSE IF a > b THEN a ELSE b

\* f64::clamp: NaN stays NaN
FClamp(x, lo, hi) == IF IsNan(x) THEN NaN ELSE IF x < lo THEN lo ELSE IF x > hi THEN hi ELSE x

\* rounded quotient of integers, b # 0
RoundDiv(a, b) ==
    LET n == Abs(a)
        d == Abs(b)
        q == (2 * n + d) \div (2 * d)
    IN  IF Sign(a) * Sign(b) < 0 THEN -q ELSE q

\* the product of two unit-range numbers (or of one and a length)
FMul(a, b) == IF IsNan(a) \/ IsNan(b) THEN NaN ELSE RoundDiv(a * b, CScale)
FAdd(a, b) == IF IsNan(a) \/ IsNan(b) THEN NaN ELSE a + b
FSub(a, b) == IF IsNan(a) \/ IsNan(b) THEN NaN ELSE a - b

\* comparisons of f64: false when either side is NaN
FLt(a, b) == ~IsNan(a) /\ ~IsNan(b) /\ a < b
FGt(a, b) == ~IsNan(a) /\ ~IsNan(b) /\ a > b
FLe(a, b) == ~IsNan(a) /\ ~IsNan(b) /\ a <= b
FGe(a, b) == ~IsNan(a) /\ ~IsNan(b) /\ a >= b

\* the integer square root of n >= 0, by bisection: lo * lo <= n < hi * hi
RECURSIVE ISqrtBetween(_, _, _)
ISqrtBetween(n, lo, hi) ==
    IF hi - lo <= 1 THEN lo
    ELSE LET mid == (lo + hi) \div 2
         IN  IF mid * mid <= n THEN ISqrtBetween(n, mid, hi) ELSE ISqrtBetween(n, lo, mid)

ISqrt(n) == ISqrtBetween(n, 0, 46341)

\* f64::sqrt: NaN for a negative argument
FSqrt(n) == IF IsNan(n) \/ n < 0 THEN NaN ELSE ISqrt(n)

IsSquare(n) == n >= 0 /\ ISqrt(n) * ISqrt(n) = n

----------------------------------------------------------------------------
(* Color (shapes.rs) *)

Color(r, g, b) == [r |-> r, g |-> g, b |-> b]
BLACK == Color(0, 0, 0)
WHITE == Color(One, One, One)

\* Color::min
ColorMin(c, min_val) ==
    Color(FMin(c.r, min_val), FMin(c.g, min_val), FMin(c.b, min_val))

\* impl Mul<f64> for Color: no clamp
ColorMulF64(c, other) == Color(FMul(c.r, other), FMul(c.g, other), FMul(c.b, other))

\* impl Mul<Color> for f64: no clamp
F64MulColor(k, other) == Color(FMul(other.r, k), FMul(other.g, k), FMul(other.b, k))

\* the sum of the channels without the clamp
ColorAddUnclamped(a, b) == Color(FAdd(a.r, b.r), FAdd(a.g, b.g), FAdd(a.b, b.b))

\* color_op_vec!(ops::Add, add)
ColorAdd(a, b) ==
    Color(FClamp(FAdd(a.r, b.r), 0, One), FClamp(FAdd(a.g, b.g), 0, One),
          FClamp(FAdd(a.b, b.b), 0, One))

\* color_op_vec!(ops::Sub, sub)
ColorSub(a, b) ==
    Color(FClamp(FSub(a.r, b.r), 0, One), FClamp(FSub(a.g, b.g), 0, One),
          FClamp(FSub(a.b, b.b), 0, One))

\* color_op_vec!(ops::Mul, mul)
ColorMul(a, b) ==
    Color(FClamp(FMul(a.r, b.r), 0, One), FClamp(FMul(a.g, b.g), 0, One),
          FClamp(FMul(a.b, b.b), 0, One))

\* impl Sum for Color: iter.fold(BLACK, |acc, c| acc + c)
RECURSIVE ColorFold(_, _)
ColorFold(acc, cs) ==
    IF cs = <<>> THEN acc ELSE ColorFold(ColorAdd(acc, Head(cs)), Tail(cs))

ColorSum(cs) == ColorFold(BLACK, cs)

ChannelInRange(x) == ~IsNan(x) /\ 0 <= x /\ x <= One
ColorInRange(c) == ChannelInRange(c.r) /\ ChannelInRange(c.g) /\ ChannelInRange(c.b)

----------------------------------------------------------------------------
(* The states of the parts a specification does not use *)

Pending == [op |-> "pending"]
NoCall == [fn |-> "none"]
NoScene == [objects |-> <<>>, lights |-> <<>>, ambient |-> 0,
            bg_color |-> BLACK, ambient_color |-> WHITE]
NoRet == [kind |-> "none"]
NoScreen == [width |-> 0, height |-> 0, framebuffer |-> <<>>, color |-> <<0, 0, 0>>]
NoLoop == [pc |-> "idle", i |-> 0, j |-> 0]

TraceIdle == scene = NoScene /\ stack = <<>> /\ ret = NoRet /\ calls = 0
NoObserver == [camera |-> [x |-> 0, y |-> 0, z |-> 0]]
RenderIdle == screen = NoScreen /\ loop = NoLoop /\ writes = <<>> /\ observer = NoObserver
PureIdle == call = NoCall /\ result = Pending

----------------------------------------------------------------------------
(* The colour operations, applied to chosen colours and scalars *)

ColorInputs ==
    {BLACK, WHITE, Color(One, 0, 0), Color(Half, Half, Half), Color(0, Half, One)}
ScalarInputs == {NaN, -One, 0, Half, One, 2 * One}

InitColor ==
    /\ call \in [fn : {"color"}, a : ColorInputs, b : ColorInputs, k : ScalarInputs]
    /\ result = Pending
    /\ TraceIdle /\ RenderIdle

ColorCall(op, value) ==
    /\ call.fn = "color"
    /\ result = Pending
    /\ result' = [op |-> op, value |-> value]
    /\ UNCHANGED <<call, traceVars, renderVars>>

DoColorAdd == ColorCall("add", ColorAdd(call.a, call.b))
DoColorSub == ColorCall("sub", ColorSub(call.a, call.b))
DoColorMul == ColorCall("mul", ColorMul(call.a, call.b))
DoColorMulF64 == ColorCall("mul_f64", ColorMulF64(call.a, call.k))
DoF64MulColor == ColorCall("f64_mul", F64MulColor(call.k, call.b))
DoColorSum == ColorCall("sum", ColorSum(<<call.a, call.b, call.a>>))
DoColorMin == ColorCall("min", ColorMin(call.a, call.k))

NextColor ==
    \/ DoColorAdd
    \/ DoColorSub
    \/ DoColorMul
    \/ DoColorMulF64
    \/ DoF64MulColor
    \/ DoColorSum
    \/ DoColorMin

SpecColor == InitColor /\ [][NextColor]_vars

\* C7: every operation that produces a Color returns channels in [0,1], for
\* all input colours in range and every scalar.
ColorOpsStayInRange ==
    (call.fn = "color" /\ result # Pending) => ColorInRange(result.value)

----------------------------------------------------------------------------
(* get_params (scene.rs): the material parameters of one section *)

\* constants.rs:9, DEFAULT_HARDNESS = 10.0
DEFAULT_HARDNESS == 10 * One

\* what Ini::get / Ini::getfloat finds under a key
Missing == [t |-> "missing"]
Malformed == [t |-> "malformed"]
Num(v) == [t |-> "num", v |-> v]

Ok(v) == [ok |-> TRUE, v |-> v]
Err(e) == [ok |-> FALSE, e |-> e]

\* get_float_default: a parse error is an error, a missing key is the default
get_float_default(raw, default) ==
    IF raw = Malformed THEN Err("parse")
    ELSE IF raw = Missing THEN Ok(default)
    ELSE Ok(raw.v)

\* get_float_fails: a parse error and a missing key are errors
get_float_fails(raw) ==
    IF raw = Malformed THEN Err("parse")
    ELSE IF raw = Missing THEN Err("missing attribute")
    ELSE Ok(raw.v)

\* get_color_fails: the colour must be there and be #rrggbb
get_color_fails(raw) ==
    IF raw = Missing THEN Err("missing color")
    ELSE IF raw = Malformed THEN Err("from_hex")
    ELSE Ok(raw.v)

\* the check of scene.rs:252
SumAboveOne(reflection, transparency) == FGt(FAdd(reflection, transparency), One)

get_params(config) ==
    LET color == get_color_fails(config.color)
        k_d == get_float_fails(config.k_d)
        k_a == get_float_default(config.k_a, One)
        k_s == get_float_fails(config.k_s)
        k_n == get_float_default(config.k_n, DEFAULT_HARDNESS)
        refl == get_float_default(config.reflection, 0)
        transp == get_float_default(config.transparency, 0)
        checker == get_float_default(config.checkerboard, 0)
        reflection == FClamp(refl.v, 0, One)
        transparency == FClamp(transp.v, 0, One)
    IN  IF ~color.ok THEN color
        ELSE IF ~k_d.ok THEN k_d
        ELSE IF ~k_a.ok THEN k_a
        ELSE IF ~k_s.ok THEN k_s
        ELSE IF ~k_n.ok THEN k_n
        ELSE IF ~refl.ok THEN refl
        ELSE IF ~transp.ok THEN transp
        ELSE IF ~checker.ok THEN checker
        ELSE IF SumAboveOne(reflection, transparency) THEN Err("transparency+reflection > 1")
        ELSE Ok([color |-> color.v,
                 k_d |-> FClamp(k_d.v, 0, One),
                 k_a |-> FClamp(k_a.v, 0, One),
                 k_s |-> FClamp(k_s.v, 0, One),
                 k_n |-> FMax(k_n.v, One),
                 o1 |-> FSub(One, FAdd(reflection, transparency)),
                 reflection |-> reflection,
                 transparency |-> transparency,
                 checkerboard |-> FMax(checker.v, 0)])

Tenth == One \div 10
WeightInputs ==
    {Missing, Malformed, Num(NaN), Num(-Half), Num(0), Num(2 * Tenth), Num(3 * Tenth),
     Num(Half), Num(7 * Tenth), Num(One), Num(One + Half)}

ConfigInputs ==
    [color : {Missing, Malformed, Num(Color(One, 0, 0))},
     k_d : {Missing, Num(Half), Num(2 * One)},
     k_a : {Missing, Num(-One)},
     k_s : {Malformed, Num(Half)},
     k_n : {Missing, Num(0), Num(NaN)},
     reflection : WeightInputs,
     transparency : WeightInputs,
     checkerboard : {Missing, Num(-One), Num(2 * One)}]

InitParams ==
    /\ call \in [fn : {"get_params"}, config : ConfigInputs]
    /\ result = Pending
    /\ TraceIdle /\ RenderIdle

DoGetParams ==
    /\ call.fn = "get_params"
    /\ result = Pending
    /\ result' = [op |-> "get_params", value |-> get_params(call.config)]
    /\ UNCHANGED <<call, traceVars, renderVars>>

NextParams == DoGetParams

SpecParams == InitParams /\ [][NextParams]_vars

\* the clamped weight a key of the section stands for (its default when missing)
ClampedWeight(raw) == IF raw = Missing THEN 0 ELSE FClamp(raw.v, 0, One)

ParamsInRange(p) ==
    /\ ChannelInRange(p.k_a) /\ ChannelInRange(p.k_d) /\ ChannelInRange(p.k_s)
    /\ ChannelInRange(p.reflection) /\ ChannelInRange(p.transparency)
    /\ FGe(p.k_n, One)
    /\ FGe(p.checkerboard, 0)
    /\ p.o1 = One - (p.reflection + p.transparency)
    /\ ChannelInRange(p.o1)

\* C9: get_params builds parameters only when the clamped reflection and
\* transparency sum to at most 1 and returns an error otherwise; everything it
\* returns has its coefficients in [0,1], k_n >= 1, checkerboard >= 0 and
\* o1 = 1 - (reflection + transparency) in [0,1]; 0.3 and 0.2 give exactly 0.5.
ParamsAreValidated ==
    result.op = "get_params" =>
        LET c == call.config
            built == result.value.ok
        IN  /\ built => ParamsInRange(result.value.v)
            /\ built => (c.reflection # Malformed /\ c.transparency # Malformed
                          /\ FLe(FAdd(ClampedWeight(c.reflection),
                                      ClampedWeight(c.transparency)), One))
            /\ (built /\ c.reflection = Num(3 * Tenth) /\ c.transparency = Num(2 * Tenth))
                   => result.value.v.o1 = Half

\* the same statement for the configurations that hold no NaN
ParamsAreValidatedOffNaN ==
    (\A k \in DOMAIN call.config \ {"color"} : call.config[k] # Num(NaN))
        => ParamsAreValidated

\* a section with reflection 0.3 and transparency 0.2 was built
ParamsBuilt ==
    /\ result.op = "get_params" /\ result.value.ok
    /\ call.config.reflection = Num(3 * Tenth)
    /\ call.config.transparency = Num(2 * Tenth)

\* a section with reflection 0.7 and transparency 0.5 was refused
ParamsRefused ==
    /\ result.op = "get_params" /\ ~result.value.ok
    /\ result.value.e = "transparency+reflection > 1"
    /\ call.config.reflection = Num(7 * Tenth)
    /\ call.config.transparency = Num(Half)

----------------------------------------------------------------------------
(* Vec3 (vec3.rs) and Ray (shapes.rs) *)

Vec3(x, y, z) == [x |-> x, y |-> y, z |-> z]

\* f64 division: a / b, where b is of the unit format or of a's format
FDiv(a, b) == IF IsNan(a) \/ IsNan(b) \/ b = 0 THEN NaN ELSE RoundDiv(a * CScale, b)

\* vec3_op_vec!(ops::Add, add), vec3_op_vec!(ops::Sub, sub)
VAdd(a, b) == Vec3(a.x + b.x, a.y + b.y, a.z + b.z)
VSub(a, b) == Vec3(a.x - b.x, a.y - b.y, a.z - b.z)

\* vec3_op_num!(ops::Mul, mul): Vec3 * f64 and f64 * Vec3
VMulF64(v, other) == Vec3(FMul(v.x, other), FMul(v.y, other), FMul(v.z, other))
F64MulV(k, other) == Vec3(FMul(other.x, k), FMul(other.y, k), FMul(other.z, k))

\* vec3_op_num!(ops::Div, div): Vec3 / f64
VDivF64(v, other) == Vec3(FDiv(v.x, other), FDiv(v.y, other), FDiv(v.z, other))

\* Vec3::norm
Norm(v) == FSqrt(v.x * v.x + v.y * v.y + v.z * v.z)

\* Vec3::normalize
Normalize(v) == VDivF64(v, Norm(v))

\* Vec3::dot, one of the two being a unit vector
Dot(a, b) == FMul(a.x, b.x) + FMul(a.y, b.y) + FMul(a.z, b.z)

Ray(anchor, dir) == [anchor |-> anchor, dir |-> dir]

\* Ray::from_2_points
from_2_points(p_origin, p_target) == Ray(p_origin, Normalize(VSub(p_target, p_origin)))

\* Ray::advance
advance(ray, t) == Ray(VAdd(ray.anchor, F64MulV(t, ray.dir)), ray.dir)

\* Ray::point_at_t
point_at_t(ray, t) == VAdd(ray.anchor, VMulF64(ray.dir, t))

\* Option<f64>
None == [some |-> FALSE]
Some(t) == [some |-> TRUE, t |-> t]

\* the six unit vectors along the coordinate axes
AxisDirs ==
    {Vec3(One, 0, 0), Vec3(-One, 0, 0), Vec3(0, One, 0), Vec3(0, -One, 0),
     Vec3(0, 0, One), Vec3(0, 0, -One)}

----------------------------------------------------------------------------
(* Sphere (shapes.rs) *)

\* the branch of shapes.rs:407 that reports no intersection
SphereFarRootBehind(t2) == t2 < 0

\* Sphere::get_intersection
SphereIntersection(sphere, ray) ==
    LET anchor == ray.anchor
        dir == ray.dir
        center == sphere.center
        b == 2 * (FMul(dir.x, anchor.x - center.x)
                  + FMul(dir.y, anchor.y - center.y)
                  + FMul(dir.z, anchor.z - center.z))
        c == (anchor.x - center.x) * (anchor.x - center.x)
             + (anchor.y - center.y) * (anchor.y - center.y)
             + (anchor.z - center.z) * (anchor.z - center.z)
             - sphere.r * sphere.r
        determinant == FSqrt(b * b - 4 * c)
    IN  IF IsNan(determinant) THEN None
        ELSE LET t1 == RoundDiv(-b - determinant, 2)
                 t2 == RoundDiv(-b + determinant, 2)
             IN  IF t1 > 0 THEN Some(t1)
                 ELSE IF SphereFarRootBehind(t2) THEN None
                 ELSE Some(t2)

\* the discriminant b*b - 4c of the ray-sphere quadratic
SphereDiscriminant(sphere, ray) ==
    LET d == VSub(ray.anchor, sphere.center)
        b == 2 * Dot(ray.dir, d)
    IN  b * b - 4 * (d.x * d.x + d.y * d.y + d.z * d.z - sphere.r * sphere.r)

MaxRadius == 5
MaxCoord == 7

SphereInputs == [center : {Vec3(0, 0, 0), Vec3(0, 1, 2)}, r : 1..MaxRadius]
SphereRayInputs ==
    [anchor : {Vec3(x, y, z) : x \in {0, 3}, y \in {0, 4}, z \in -MaxCoord..MaxCoord},
     dir : AxisDirs]

\* the rays whose roots the fixed-point format holds exactly
ExactOnSphere(sphere, ray) ==
    LET disc == SphereDiscriminant(sphere, ray) IN disc < 0 \/ IsSquare(disc)

InitSphere ==
    /\ call \in [fn : {"sphere"}, sphere : SphereInputs, ray : SphereRayInputs]
    /\ ExactOnSphere(call.sphere, call.ray)
    /\ result = Pending
    /\ TraceIdle /\ RenderIdle

DoSphereIntersection ==
    /\ call.fn = "sphere"
    /\ result = Pending
    /\ result' = [op |-> "sphere", value |-> SphereIntersection(call.sphere, call.ray)]
    /\ UNCHANGED <<call, traceVars, renderVars>>

NextSphere == DoSphereIntersection

SpecSphere == InitSphere /\ [][NextSphere]_vars

\* squared distance of two points
Dist2(p, q) ==
    (p.x - q.x) * (p.x - q.x) + (p.y - q.y) * (p.y - q.y) + (p.z - q.z) * (p.z - q.z)

\* the parameters t at which the ray's line meets the sphere's surface
SphereRoots(sphere, ray) ==
    {t \in -(3 * MaxCoord + MaxRadius)..(3 * MaxCoord + MaxRadius) :
        Dist2(point_at_t(ray, t), sphere.center) = sphere.r * sphere.r}

SetMin(S) == CHOOSE m \in S : \A n \in S : m <= n
SetMax(S) == CHOOSE m \in S : \A n \in S : m >= n

\* C10: Sphere::get_intersection returns the smallest strictly positive root
\* and none when there is none; it never returns t <= 0, and a ray that starts
\* strictly inside the sphere gets the exit root.
SphereSmallestPositiveRoot ==
    result.op = "sphere" =>
        LET roots == SphereRoots(call.sphere, call.ray)
            positive == {t \in roots : t > 0}
            inside == Dist2(call.ray.anchor, call.sphere.center)
                          < call.sphere.r * call.sphere.r
        IN  /\ result.value = IF positive = {} THEN None ELSE Some(SetMin(positive))
            /\ result.value.some => result.value.t > 0
            /\ inside => result.value = Some(SetMax(roots))

\* the same statement for a ray that does not start on the sphere's surface
SphereSmallestPositiveRootOffSurface ==
    0 \notin SphereRoots(call.sphere, call.ray) => SphereSmallestPositiveRoot

----------------------------------------------------------------------------
(* Shapes (shapes.rs): Plane, Disc, Sphere behind the Shape enum *)

\* Vec3::cross, of two unit vectors
Cross(a, b) ==
    Vec3(FMul(a.y, b.z) - FMul(a.z, b.y),
         FMul(a.z, b.x) - FMul(a.x, b.z),
         FMul(a.x, b.y) - FMul(a.y, b.x))

\* Plane::new, Disc::new, Sphere::new
NewPlane(normal, point, params) ==
    [kind |-> "plane", normal |-> Normalize(normal), anchor |-> point, params |-> params]
NewDisc(normal, center, r, params) ==
    [kind |-> "disc", normal |-> Normalize(normal), center |-> center, r |-> r,
     params |-> params]
NewSphere(center, r, params) ==
    [kind |-> "sphere", center |-> center, r |-> r, params |-> params]

\* |denominator| < TOLERANCE, the denominator being a dot product of unit vectors
Parallel(denominator) == ToL(Abs(denominator)) < TOLERANCE

\* Plane::get_intersection
PlaneIntersection(plane, ray) ==
    LET normal == plane.normal
        denominator == Dot(normal, ray.dir)
    IN  IF Parallel(denominator) THEN None
        ELSE LET t == FDiv(FMul(One, Dot(VSub(plane.anchor, ray.anchor), normal)),
                           denominator)
             IN  IF t > 0 THEN Some(t) ELSE None

\* a test that turns away the hits on the rim
StrictlyWithinRadius(offset, r) ==
    offset.x * offset.x + offset.y * offset.y + offset.z * offset.z < r * r

\* (ray.point_at_t(t) - self.center).norm() <= self.r, as the comparison of
\* the squares: the square root is monotone, and the whole-number root of
\* Norm would let through the distances between r and r + 1
WithinRadius(offset, r) ==
    offset.x * offset.x + offset.y * offset.y + offset.z * offset.z <= r * r

\* Disc::get_intersection
DiscIntersection(disc, ray) ==
    LET normal == disc.normal
        denominator == Dot(normal, ray.dir)
    IN  IF Parallel(denominator) THEN None
        ELSE LET t == FDiv(FMul(One, Dot(VSub(disc.center, ray.anchor), normal)),
                           denominator)
             IN  IF t > 0 /\ WithinRadius(VSub(point_at_t(ray, t), disc.center), disc.r)
                 THEN Some(t)
                 ELSE None

\* ShapeCalculations::get_intersection, dispatched on the Shape enum
get_intersection(object, ray) ==
    CASE object.kind = "sphere" -> SphereIntersection(object, ray)
      [] object.kind = "plane" -> PlaneIntersection(object, ray)
      [] object.kind = "disc" -> DiscIntersection(object, ray)

\* ShapeCalculations::get_normal_vec
get_normal_vec(object, intersection) ==
    CASE object.kind = "sphere" -> VDivF64(VSub(intersection, object.center), object.r)
      [] object.kind = "plane" -> object.normal
      [] object.kind = "disc" -> object.normal

\* Plane::get_texture_coords, Disc::get_texture_coords (a sphere's use atan2 and
\* acos: the spheres of the model have no checkerboard)
get_texture_coords(object, intersection) ==
    LET first == Cross(object.normal, Vec3(0, 0, One))
        x_axis == IF Norm(first) = 0 THEN Cross(object.normal, Vec3(0, One, 0)) ELSE first
        y_axis == Cross(object.normal, x_axis)
        origin == IF object.kind = "plane" THEN object.anchor ELSE object.center
        plane_vec == VSub(intersection, origin)
    IN  [x |-> Dot(plane_vec, x_axis), y |-> Dot(plane_vec, y_axis)]

\* i32::MAX
I32_MAX == 2147483647

\* the % of Rust: the remainder has the sign of the dividend
RustRem(a, b) == IF a >= 0 \/ a % b = 0 THEN a % b ELSE (a % b) - b

\* f64::floor of the quotient of two lengths
FloorQuot(a, b) == a \div b

\* int_x, int_y of checker_pattern (shapes.rs:703-704): the tile size is a length
CheckerInt(coord, object) ==
    RustRem(FloorQuot(coord, object.params.checkerboard), I32_MAX)

\* int_x + int_y leaves the range of i32
AddOverflows(a, b) ==
    \/ b > 0 /\ a > I32_MAX - b
    \/ b < 0 /\ a < (-I32_MAX - 1) - b

\* the i32 sum as a build without overflow checks wraps it
WrappingAdd(a, b) ==
    IF b > 0 /\ a > I32_MAX - b THEN (a - I32_MAX - 1) + (b - I32_MAX - 1)
    ELSE IF b < 0 /\ a < (-I32_MAX - 1) - b THEN (a + I32_MAX + 1) + (b + I32_MAX + 1)
    ELSE a + b

\* checker_pattern panics at shapes.rs:706 in a build with overflow checks
CheckerPanics(coords, object) ==
    AddOverflows(CheckerInt(coords.x, object), CheckerInt(coords.y, object))

\* checker_pattern, where it does not panic
checker_pattern(coords, object) ==
    IF RustRem(WrappingAdd(CheckerInt(coords.x, object), CheckerInt(coords.y, object)),
               2) = 0
    THEN object.params.color
    ELSE BLACK

\* ShapeCalculations::get_color_at
get_color_at(object, point) ==
    IF object.params.checkerboard > 0
    THEN checker_pattern(get_texture_coords(object, point), object)
    ELSE object.params.color

\* get_color_at of a point whose texture coordinates are coords
ColorAtCoords(object, coords) ==
    IF object.params.checkerboard > 0
    THEN checker_pattern(coords, object)
    ELSE object.params.color

----------------------------------------------------------------------------
(* Light and Scene (scene.rs) *)

Light(position, intensity, c_1, c_2, c_3, color) ==
    [position |-> position, intensity |-> intensity, c_1 |-> c_1, c_2 |-> c_2,
     c_3 |-> c_3, color |-> color]

\* Light::get_attenuation: (1 / (c_1 + c_2 d + c_3 d d)).min(1.0); the distance
\* is a length, the coefficients and the result are of the unit format
get_attenuation(light, distance) ==
    LET linear == RoundDiv(light.c_2 * distance, LScale)
        quadratic == RoundDiv(RoundDiv(light.c_3 * distance, LScale) * distance, LScale)
        denominator == light.c_1 + linear + quadratic
    IN  IF denominator = 0 THEN One ELSE FMin(FDiv(One, denominator), One)

\* Light::get_l_vec
get_l_vec(light, intersection) == Normalize(VSub(light.position, intersection))

Scene(objects, lights, ambient, bg_color, ambient_color) ==
    [objects |-> objects, lights |-> lights, ambient |-> ambient,
     bg_color |-> bg_color, ambient_color |-> ambient_color]

----------------------------------------------------------------------------
(* get_shadow_intersection (raytracer.rs) *)

\* get_refractive_dir
get_refractive_dir(ray) == ray.dir

\* the test of raytracer.rs:218 without the bound of the light
InShadowBeyondTolerance(t, t_light) == t > TOLERANCE

\* the test of raytracer.rs:218 on the distance of an occluder
InShadowRange(t, t_light) == t < t_light /\ t > TOLERANCE

RECURSIVE get_shadow_intersection(_, _, _)
RECURSIVE ShadowScan(_, _, _, _)

\* the loop of get_shadow_intersection from the k-th object on: the first
\* object of the list that is in range decides
ShadowScan(ray, scn, light, k) ==
    IF k > Len(scn.objects) THEN One
    ELSE LET object == scn.objects[k]
             hit == get_intersection(object, ray)
             t_light == Norm(VSub(light.position, ray.anchor))
         IN  IF hit.some /\ InShadowRange(hit.t, t_light)
             THEN IF object.params.transparency > 0
                  THEN FMul(object.params.transparency,
                            get_shadow_intersection(
                                advance(Ray(point_at_t(ray, hit.t), get_refractive_dir(ray)),
                                        TOLERANCE),
                                scn, light))
                  ELSE 0
             ELSE ShadowScan(ray, scn, light, k + 1)

get_shadow_intersection(ray, scn, light) == ShadowScan(ray, scn, light, 1)

\* the shadow ray get_color_pixel casts from a hit point (raytracer.rs:72-76)
ShadowRay(point, light) == advance(from_2_points(point, light.position), TOLERANCE)

----------------------------------------------------------------------------
(* Scenes on the z axis *)

\* the material get_params builds from a section with these weights
Material(color, reflection, transparency) ==
    get_params([color |-> Num(color), k_d |-> Num(One), k_a |-> Missing,
                k_s |-> Num(0), k_n |-> Missing, reflection |-> Num(reflection),
                transparency |-> Num(transparency), checkerboard |-> Missing]).v

RED == Color(One, 0, 0)
GREEN == Color(0, One, 0)
BLUE == Color(0, 0, One)

Opaque == Material(RED, 0, 0)
HalfGlass == Material(GREEN, 0, Half)
Glass == Material(BLUE, 0, One)
Mirror == Material(WHITE, One, 0)

OnAxis(z) == Vec3(0, 0, z)
ZPlane(z, params) == NewPlane(Vec3(0, 0, -One), OnAxis(z), params)
ZSphere(z, r, params) == NewSphere(OnAxis(z), r, params)

WhiteLight(z) == Light(OnAxis(z), One, One, 0, 0, WHITE)

\* the sequences over S of length at most n
RECURSIVE SeqsUpTo(_, _)
SeqsUpTo(S, n) ==
    IF n = 0 THEN {<<>>}
    ELSE LET shorter == SeqsUpTo(S, n - 1)
         IN  shorter \cup {Append(s, x) : s \in shorter, x \in S}

----------------------------------------------------------------------------
(* The shadow test, applied to a hit point at the origin and a light on the
   z axis, with planes and spheres between and behind them *)

MaxOccluders == 2

OccluderInputs ==
    {ZPlane(4, Opaque), ZPlane(8, Opaque), ZPlane(4, HalfGlass), ZPlane(8, HalfGlass),
     ZPlane(14, Opaque), ZSphere(6, 2, Opaque), ZSphere(6, 2, HalfGlass),
     ZSphere(6, 2, Glass)}

InitShadow ==
    /\ call \in [fn : {"shadow"},
                 objects : SeqsUpTo(OccluderInputs, MaxOccluders),
                 point : {OnAxis(0), OnAxis(5)},
                 light : {WhiteLight(12), WhiteLight(7)}]
    /\ result = Pending
    /\ TraceIdle /\ RenderIdle

DoShadowIntersection ==
    /\ call.fn = "shadow"
    /\ result = Pending
    /\ result' = [op |-> "shadow",
                  value |-> get_shadow_intersection(
                                ShadowRay(call.point, call.light),
                                Scene(call.objects, <<call.light>>, 0, BLACK, WHITE),
                                call.light)]
    /\ UNCHANGED <<call, traceVars, renderVars>>

NextShadow == DoShadowIntersection

SpecShadow == InitShadow /\ [][NextShadow]_vars

\* the objects of the call that the shadow ray meets strictly between the
\* tolerance offset and the light
Occluders ==
    LET ray == ShadowRay(call.point, call.light)
        t_light == Norm(VSub(call.light.position, ray.anchor))
    IN  {k \in 1..Len(call.objects) :
            LET hit == get_intersection(call.objects[k], ray)
            IN  hit.some /\ hit.t > TOLERANCE /\ hit.t < t_light}

\* C5: an opaque primitive between the hit point and the light gives 0,
\* whatever else is in the scene and in whatever order; no primitive between
\* them gives 1.
ShadowOpaqueBlocks ==
    result.op = "shadow" =>
        /\ (\E k \in Occluders : call.objects[k].params.transparency = 0)
               => result.value = 0
        /\ Occluders = {} => result.value = One

\* C6: a single occluder of transparency 0.5 between the hit point and the
\* light gives 0.5, whatever its kind.
ShadowHalfTransparent ==
    (/\ result.op = "shadow"
     /\ Len(call.objects) = 1
     /\ Occluders = {1}
     /\ call.objects[1].params.transparency = Half) => result.value = Half

\* the same statement for an occluder that is a plane
ShadowHalfTransparentPlane ==
    (Len(call.objects) = 1 /\ call.objects[1].kind = "plane") => ShadowHalfTransparent

----------------------------------------------------------------------------
(* get_first_intersection and the local colour of a hit (raytracer.rs) *)

\* constants.rs:12
SHADOWS == TRUE

\* constants.rs:15
MAX_REFLECTIONS == 5

\* the multiplier of the gate of raytracer.rs:132 (imported from constants)
TOLERANCE_MUL == 1000

\* f64::INFINITY
INFINITY == 2^30

\* Option<Intersection>: the object (and its place in the list) and the point
NoHit == [some |-> FALSE]
Hit(index, object, point) ==
    [some |-> TRUE, index |-> index, object |-> object, point |-> point]

\* the test of raytracer.rs:197 with <= for <: a later object at the same t wins
NearerOrEqual(t, tmin) == t <= tmin

\* the test of raytracer.rs:197
Nearer(t, tmin) == t < tmin

\* the loop of get_first_intersection from the k-th object on
RECURSIVE FirstScan(_, _, _, _, _)
FirstScan(ray, scn, k, tmin, intersection) ==
    IF k > Len(scn.objects) THEN intersection
    ELSE LET object == scn.objects[k]
             hit == get_intersection(object, ray)
         IN  IF hit.some /\ Nearer(hit.t, tmin)
             THEN FirstScan(ray, scn, k + 1, hit.t, Hit(k, object, point_at_t(ray, hit.t)))
             ELSE FirstScan(ray, scn, k + 1, tmin, intersection)

get_first_intersection(ray, scn) == FirstScan(ray, scn, 1, INFINITY, NoHit)

\* f64::powf, for an exponent that is a whole number
RECURSIVE FPowN(_, _)
FPowN(x, n) == IF n = 0 THEN One ELSE FMul(x, FPowN(x, n - 1))
FPow(x, k) == FPowN(x, k \div One)

\* raytracer.rs:68-85: per light, the shadow factor, F_att * Ip and the L vector
LightTerms(inter, scn) ==
    [i \in 1..Len(scn.lights) |->
        LET light == scn.lights[i]
        IN  [shadow |-> IF SHADOWS
                        THEN get_shadow_intersection(ShadowRay(inter.point, light), scn, light)
                        ELSE 0,
             factor |-> FMul(get_attenuation(light,
                                             Norm(VSub(light.position, inter.point))),
                             light.intensity),
             l_vec |-> get_l_vec(light, inter.point)]]

\* raytracer.rs:87-101: the diffuse contribution of each light
Diffuse(object, normal, terms, scn) ==
    [i \in 1..Len(scn.lights) |->
        LET intensity == FMul(FMul(FMax(Dot(terms[i].l_vec, normal), 0),
                                   terms[i].factor), object.params.k_d)
        IN  ColorMulF64(scn.lights[i].color,
                        IF SHADOWS THEN FMul(intensity, terms[i].shadow)
                        ELSE intensity)]

\* raytracer.rs:87-104
TotalIntensity(object, normal, terms, scn) ==
    ColorMin(ColorAdd(ColorSum(Diffuse(object, normal, terms, scn)),
                      ColorMulF64(ColorMulF64(scn.ambient_color, scn.ambient),
                                  object.params.k_a)),
             One)

\* raytracer.rs:108-125: the specular contribution of each light
Specular(object, normal, backwards_vec, terms, rgb_d, scn) ==
    [i \in 1..Len(scn.lights) |->
        LET l_vec == terms[i].l_vec
            reflection_vec == VSub(VMulF64(F64MulV(2 * One, normal), Dot(normal, l_vec)),
                                   l_vec)
            spec == FMul(FMul(FPow(FMax(Dot(reflection_vec, backwards_vec), 0),
                                   object.params.k_n),
                              terms[i].factor), object.params.k_s)
        IN  ColorMulF64(ColorSub(scn.lights[i].color, rgb_d),
                        IF SHADOWS THEN FMul(spec, terms[i].shadow) ELSE spec)]

\* raytracer.rs:108-129: total_speculation added to rgb_d
WithSpeculation(object, normal, backwards_vec, terms, rgb_d, scn) ==
    ColorAdd(rgb_d,
             ColorMin(ColorSum(Specular(object, normal, backwards_vec, terms, rgb_d, scn)),
                      One))

\* raytracer.rs:87-129: object_color from the normal and the terms of the lights
Shade(object, point, normal, backwards_vec, terms, scn) ==
    WithSpeculation(object, normal, backwards_vec, terms,
                    ColorMul(TotalIntensity(object, normal, terms, scn),
                             get_color_at(object, point)),
                    scn)

\* raytracer.rs:55-129: object_color, the local colour of the hit
ObjectColor(ray, inter, scn) ==
    Shade(inter.object, inter.point, get_normal_vec(inter.object, inter.point),
          F64MulV(-One, ray.dir), LightTerms(inter, scn), scn)

----------------------------------------------------------------------------
(* get_color_pixel (raytracer.rs), one frame of the stack per nested call *)

Frame(ray, total_o1, reflections) ==
    [ray |-> ray, total_o1 |-> total_o1, reflections |-> reflections,
     phase |-> "enter", inter |-> NoHit, object_color |-> BLACK,
     transparency_c |-> BLACK, reflection_c |-> BLACK, made |-> {}]

Top == stack[Len(stack)]

\* raytracer.rs:132 without the test of the accumulated budget
GateOpenUnbudgeted(o1, total_o1) == FLt(o1, One)

\* raytracer.rs:132; no comparison holds of a NaN o1
GateOpen(o1, total_o1) == FLt(o1, One) /\ ToL(total_o1) > TOLERANCE * TOLERANCE_MUL

\* raytracer.rs:133
TransparencyActive(object) == ToL(object.params.transparency) > TOLERANCE

\* raytracer.rs:153 without the test of the remaining budget
ReflectionActiveUnbudgeted(object, reflections) ==
    ToL(object.params.reflection) > TOLERANCE

\* raytracer.rs:153
ReflectionActive(object, reflections) ==
    ToL(object.params.reflection) > TOLERANCE /\ reflections > 0

\* raytracer.rs:168 handing the budget on undiminished
ReflectedBudgetKept(reflections) == reflections

\* raytracer.rs:168: the budget handed to the reflected call
ReflectedBudget(reflections) == reflections - 1

\* raytracer.rs:147: the budget handed to the transmitted call
TransmittedBudget(reflections) == reflections

\* raytracer.rs:134-141
TransparencyRay(ray, inter) ==
    advance(Ray(inter.point, get_refractive_dir(ray)), TOLERANCE)

\* raytracer.rs:154-162
ReflectionRay(ray, inter) ==
    LET normal == get_normal_vec(inter.object, inter.point)
        reflection_dir == VSub(ray.dir, F64MulV(FMul(2 * One, Dot(ray.dir, normal)),
                                                normal))
    IN  advance(Ray(inter.point, reflection_dir), TOLERANCE)

\* black in the place of the local colour
StandInBlack(object_color) == BLACK

\* raytracer.rs:149-151, 170-172: the local colour stands in for the colour
\* of a recursive call that is not made
StandIn(object_color) == object_color

\* raytracer.rs:173-175 without the term of the local colour
CompositeWithoutLocal(object, object_color, reflection_c, transparency_c) ==
    ColorAdd(F64MulColor(object.params.reflection, reflection_c),
             F64MulColor(object.params.transparency, transparency_c))

\* raytracer.rs:173-175
Composite(object, object_color, reflection_c, transparency_c) ==
    ColorAdd(ColorAdd(F64MulColor(object.params.o1, object_color),
                      F64MulColor(object.params.reflection, reflection_c)),
             F64MulColor(object.params.transparency, transparency_c))

\* the record of a call that returns
Returned(frame, kind, value) ==
    [kind |-> kind, value |-> value, depth |-> Len(stack), ray |-> frame.ray,
     total_o1 |-> frame.total_o1, reflections |-> frame.reflections,
     inter |-> frame.inter, object_color |-> frame.object_color,
     transparency_c |-> frame.transparency_c, reflection_c |-> frame.reflection_c,
     made |-> frame.made]

\* the stack once the top call has returned value to its caller
Delivered(value) ==
    IF Len(stack) = 1 THEN <<>>
    ELSE LET caller == stack[Len(stack) - 1]
             resumed == IF caller.phase = "await_transparency"
                        THEN [caller EXCEPT !.transparency_c = value,
                                            !.phase = "reflection"]
                        ELSE [caller EXCEPT !.reflection_c = value, !.phase = "combine"]
         IN  Append(SubSeq(stack, 1, Len(stack) - 2), resumed)

Return(frame, kind, value) ==
    /\ ret' = Returned(frame, kind, value)
    /\ stack' = Delivered(value)
    /\ UNCHANGED <<scene, calls, pureVars, renderVars>>

ReplaceTop(frame) == stack' = [stack EXCEPT ![Len(stack)] = frame]

\* raytracer.rs:54, 179-181: no intersection, the background colour
GcpMiss ==
    /\ stack # <<>> /\ Top.phase = "enter"
    /\ ~get_first_intersection(Top.ray, scene).some
    /\ Return(Top, "miss", scene.bg_color)

\* raytracer.rs:54-132, 176-178: a hit whose gate is closed, the local colour
GcpLocal ==
    /\ stack # <<>> /\ Top.phase = "enter"
    /\ LET inter == get_first_intersection(Top.ray, scene)
       IN  /\ inter.some
           /\ ~GateOpen(inter.object.params.o1, Top.total_o1)
           /\ LET object_color == ObjectColor(Top.ray, inter, scene)
              IN  Return([Top EXCEPT !.inter = inter, !.object_color = object_color],
                         "local", object_color)

\* raytracer.rs:54-132: a hit whose gate is open
GcpGateOpen ==
    /\ stack # <<>> /\ Top.phase = "enter"
    /\ LET inter == get_first_intersection(Top.ray, scene)
       IN  /\ inter.some
           /\ GateOpen(inter.object.params.o1, Top.total_o1)
           /\ ReplaceTop([Top EXCEPT !.inter = inter,
                                     !.object_color = ObjectColor(Top.ray, inter, scene),
                                     !.phase = "transparency"])
    /\ UNCHANGED <<scene, ret, calls, pureVars, renderVars>>

\* raytracer.rs:133-148: the transmitted call
GcpTransmit ==
    /\ stack # <<>> /\ Top.phase = "transparency"
    /\ TransparencyActive(Top.inter.object)
    /\ stack' = Append([stack EXCEPT ![Len(stack)] =
                            [Top EXCEPT !.phase = "await_transparency",
                                        !.made = @ \cup {"transparency"}]],
                       Frame(TransparencyRay(Top.ray, Top.inter),
                             FMul(Top.total_o1, Top.inter.object.params.transparency),
                             TransmittedBudget(Top.reflections)))
    /\ calls' = calls + 1
    /\ UNCHANGED <<scene, ret, pureVars, renderVars>>

\* raytracer.rs:149-151: no transmitted call, the local colour stands in
GcpNoTransmit ==
    /\ stack # <<>> /\ Top.phase = "transparency"
    /\ ~TransparencyActive(Top.inter.object)
    /\ ReplaceTop([Top EXCEPT !.transparency_c = StandIn(Top.object_color),
                              !.phase = "reflection"])
    /\ UNCHANGED <<scene, ret, calls, pureVars, renderVars>>

\* raytracer.rs:153-169: the reflected call
GcpReflect ==
    /\ stack # <<>> /\ Top.phase = "reflection"
    /\ ReflectionActive(Top.inter.object, Top.reflections)
    /\ stack' = Append([stack EXCEPT ![Len(stack)] =
                            [Top EXCEPT !.phase = "await_reflection",
                                        !.made = @ \cup {"reflection"}]],
                       Frame(ReflectionRay(Top.ray, Top.inter),
                             FMul(Top.total_o1, Top.inter.object.params.reflection),
                             ReflectedBudget(Top.reflections)))
    /\ calls' = calls + 1
    /\ UNCHANGED <<scene, ret, pureVars, renderVars>>

\* raytracer.rs:170-172: no reflected call, the local colour stands in
GcpNoReflect ==
    /\ stack # <<>> /\ Top.phase = "reflection"
    /\ ~ReflectionActive(Top.inter.object, Top.reflections)
    /\ ReplaceTop([Top EXCEPT !.reflection_c = StandIn(Top.object_color),
                              !.phase = "combine"])
    /\ UNCHANGED <<scene, ret, calls, pureVars, renderVars>>

\* raytracer.rs:173-175: the composite colour
GcpCombine ==
    /\ stack # <<>> /\ Top.phase = "combine"
    /\ Return(Top, "composite",
              Composite(Top.inter.object, Top.object_color, Top.reflection_c,
                        Top.transparency_c))

GetColorPixel ==
    \/ GcpMiss
    \/ GcpLocal
    \/ GcpGateOpen
    \/ GcpTransmit
    \/ GcpNoTransmit
    \/ GcpReflect
    \/ GcpNoReflect
    \/ GcpCombine

----------------------------------------------------------------------------
(* One primary ray, as raytrace casts it (raytracer.rs:34), into scenes of
   planes and spheres on the z axis, seen from the origin *)

HalfMirror == Material(WHITE, Half, 0)
Mixed == Material(BLUE, Half, Half)

MaxObjects == 2

ObjectInputs ==
    {ZPlane(6, Mirror), ZPlane(-6, Mirror), ZPlane(6, Opaque), ZPlane(-4, Mixed),
     ZSphere(4, 2, Glass), ZPlane(-8, HalfMirror)}

SceneInputs ==
    {Scene(objects, lights, Half, Color(Half, 0, Half), WHITE) :
        objects \in SeqsUpTo(ObjectInputs, MaxObjects),
        lights \in {<<>>, <<WhiteLight(1)>>}}

PrimaryRays == {from_2_points(OnAxis(0), OnAxis(3)), from_2_points(OnAxis(0), OnAxis(-3))}

\* raytracer.rs:34
PrimaryCall(ray) == <<Frame(ray, One, MAX_REFLECTIONS)>>

InitTrace ==
    /\ scene \in SceneInputs
    /\ \E ray \in PrimaryRays : stack = PrimaryCall(ray)
    /\ ret = NoRet
    /\ calls = 1
    /\ PureIdle /\ RenderIdle

NextTrace == GetColorPixel

SpecTrace == InitTrace /\ [][NextTrace]_vars

----------------------------------------------------------------------------
(* Properties of get_color_pixel and get_first_intersection *)

Returns == ret.kind # "none"

\* the reflected calls among the callers of the k-th nested call
ReflectedAbove(k) ==
    Cardinality({j \in 1..(k - 1) : stack[j].phase = "await_reflection"})

\* C2 as stated: counting reflected and transmitted calls together, the
\* nesting depth of get_color_pixel never exceeds MAX_REFLECTIONS plus the
\* primary call, and a call with remaining budget 0 makes no recursive call.
NestingWithinMaxReflections ==
    /\ Len(stack) <= MAX_REFLECTIONS + 1
    /\ \A k \in 1..Len(stack) : stack[k].reflections = 0 => stack[k].made = {}
    /\ (Returns /\ ret.reflections = 0) => ret.made = {}

\* C2 amended: along every chain of nested get_color_pixel calls at most
\* MAX_REFLECTIONS are reflected calls: each call's remaining budget is
\* MAX_REFLECTIONS less the reflected calls above it and never drops below 0,
\* and a call with remaining budget 0 makes no reflected call (it may still
\* make a transmitted call, which leaves the budget as it is).
ReflectedCallsWithinMaxReflections ==
    /\ \A k \in 1..Len(stack) :
          /\ stack[k].reflections = MAX_REFLECTIONS - ReflectedAbove(k)
          /\ stack[k].reflections >= 0
          /\ stack[k].reflections = 0 => "reflection" \notin stack[k].made
    /\ ReflectedAbove(Len(stack) + 1) <= MAX_REFLECTIONS
    /\ (Returns /\ ret.reflections = 0) => "reflection" \notin ret.made

\* a call at budget 0 that has made a transmitted call, nested deeper than
\* MAX_REFLECTIONS + 1
TransmittedAtBudgetZero ==
    /\ Len(stack) > MAX_REFLECTIONS + 1
    /\ \E k \in 1..Len(stack) :
          stack[k].reflections = 0 /\ "transparency" \in stack[k].made

\* every surface of the scene is a perfect mirror
MirrorScene ==
    /\ scene.objects # <<>>
    /\ \A k \in 1..Len(scene.objects) :
          /\ scene.objects[k].params.reflection = One
          /\ scene.objects[k].params.transparency = 0

MirrorChainBounded ==
    MirrorScene =>
        /\ Len(stack) <= MAX_REFLECTIONS + 1
        /\ calls <= MAX_REFLECTIONS + 1
        /\ \A k \in 1..Len(stack) : stack[k].reflections = MAX_REFLECTIONS - (k - 1)
        /\ (Returns /\ ret.reflections = 0 /\ ret.inter.some) =>
              /\ ret.made = {}
              /\ ret.value = ret.object_color

\* how far a call is from its return, by its phase
PhaseRank(phase) ==
    CASE phase = "enter" -> 5
      [] phase = "transparency" -> 4
      [] phase = "await_transparency" -> 4
      [] phase = "reflection" -> 3
      [] phase = "await_reflection" -> 2
      [] phase = "combine" -> 1

RECURSIVE RankSum(_)
RankSum(frames) ==
    IF frames = <<>> THEN 0 ELSE PhaseRank(Head(frames).phase) + RankSum(Tail(frames))

\* a variant of the mirror chain: the steps the nested calls have left and
\* those of the calls the budget still allows
MirrorVariant == RankSum(stack) + 6 * (MAX_REFLECTIONS + 1 - calls)

\* C3: in a scene of mirrors only (reflection 1, transparency 0),
\* get_color_pixel started with budget MAX_REFLECTIONS terminates (every
\* step lowers a variant that stays at or above 0); each reflected call gets
\* the budget less exactly 1, at most MAX_REFLECTIONS + 1 calls are nested,
\* and the call at budget 0 returns its local colour without a recursive
\* call.
MirrorsTerminate ==
    [][MirrorScene =>
          /\ MirrorChainBounded /\ MirrorChainBounded'
          /\ MirrorVariant' < MirrorVariant
          /\ MirrorVariant' >= 0]_vars

\* two facing mirrors: the call at budget 0 has hit a mirror and returned
MirrorChainExhausted ==
    /\ MirrorScene
    /\ Returns /\ ret.reflections = 0 /\ ret.inter.some
    /\ ret.depth = MAX_REFLECTIONS + 1

\* the objects that report an intersection with the ray, and their t
Reporting(ray) ==
    {k \in 1..Len(scene.objects) : get_intersection(scene.objects[k], ray).some}

ReportedT(ray, k) == get_intersection(scene.objects[k], ray).t

\* the first object, in the order of the list, among those of minimal t
NearestFirst(ray) ==
    CHOOSE k \in Reporting(ray) :
        \A j \in Reporting(ray) :
            \/ ReportedT(ray, k) < ReportedT(ray, j)
            \/ ReportedT(ray, k) = ReportedT(ray, j) /\ k <= j

IsNearestFirst(ray, inter) ==
    /\ Reporting(ray) # {}
    /\ inter.some
    /\ inter.index = NearestFirst(ray)
    /\ inter.object = scene.objects[inter.index]
    /\ inter.point = point_at_t(ray, ReportedT(ray, inter.index))

\* C4: get_first_intersection returns the object of minimal reported t, the
\* first of them in the order of the list when several report that t; when no
\* object reports an intersection get_color_pixel returns the background
\* colour of the scene, without shading and without a recursive call.
FirstIntersectionIsNearest ==
    /\ (stack # <<>> /\ Top.phase # "enter") => IsNearestFirst(Top.ray, Top.inter)
    /\ Returns =>
          IF Reporting(ret.ray) = {}
          THEN /\ ret.kind = "miss"
               /\ ret.value = scene.bg_color
               /\ ~ret.inter.some
               /\ ret.made = {}
          ELSE /\ ret.kind # "miss"
               /\ IsNearestFirst(ret.ray, ret.inter)

\* a hit where a later object of the list reports the same minimal t
TieAtNearest ==
    /\ stack # <<>> /\ Top.phase # "enter"
    /\ \E j \in Reporting(Top.ray) :
          /\ j > Top.inter.index
          /\ ReportedT(Top.ray, j) = ReportedT(Top.ray, Top.inter.index)

\* the colour of a ray as the compositing rule states it
RECURSIVE Resolved(_, _, _)
Resolved(ray, total_o1, reflections) ==
    LET inter == get_first_intersection(ray, scene)
    IN  IF ~inter.some THEN scene.bg_color
        ELSE LET params == inter.object.params
                 local == ObjectColor(ray, inter, scene)
                 T == IF ToL(params.transparency) > TOLERANCE
                      THEN Resolved(TransparencyRay(ray, inter),
                                    FMul(total_o1, params.transparency), reflections)
                      ELSE local
                 R == IF ToL(params.reflection) > TOLERANCE /\ reflections > 0
                      THEN Resolved(ReflectionRay(ray, inter),
                                    FMul(total_o1, params.reflection), reflections - 1)
                      ELSE local
             IN  IF params.o1 < One /\ ToL(total_o1) > TOLERANCE * TOLERANCE_MUL
                 THEN ColorAdd(ColorAdd(F64MulColor(params.o1, local),
                                        F64MulColor(params.reflection, R)),
                               F64MulColor(params.transparency, T))
                 ELSE local

\* what the compositing rule says of the returned call r
CompositeAsStated(r) ==
    r.kind # "miss" =>
        /\ r.value = Resolved(r.ray, r.total_o1, r.reflections)
        /\ r.kind = "local" <=> ~GateOpen(r.inter.object.params.o1, r.total_o1)
        /\ r.kind = "local" => r.value = r.object_color /\ r.made = {}
        /\ r.kind = "composite" =>
              /\ "transparency" \in r.made
                    <=> ToL(r.inter.object.params.transparency) > TOLERANCE
              /\ "reflection" \in r.made
                    <=> (ToL(r.inter.object.params.reflection) > TOLERANCE
                         /\ r.reflections > 0)

----------------------------------------------------------------------------
(* raytrace (raytracer.rs) on a ScreenContextManager (screen.rs) *)

\* ScreenContextManager::new
NewScreen(width, height) ==
    [width |-> width, height |-> height,
     framebuffer |-> [k \in 1..(width * height) |-> <<0, 0, 0>>],
     color |-> <<0, 0, 0>>]

\* (c * 255.0).round() as u8: the cast saturates and takes NaN to 0
Byte(c) ==
    IF IsNan(c) THEN 0
    ELSE LET b == RoundDiv(c * 255, CScale)
         IN  IF b < 0 THEN 0 ELSE IF b > 255 THEN 255 ELSE b

\* ScreenContextManager::set_color
set_color(scr, color) ==
    [scr EXCEPT !.color = <<Byte(color.r), Byte(color.g), Byte(color.b)>>]

\* an index that runs down the columns instead of along the rows
PlotIndexColumnMajor(scr, x, y) == x * scr.height + y

\* the index of plot_pixel (screen.rs:54); the sizes of the model keep the
\* u32 product far from wrapping
PlotIndex(scr, x, y) == y * scr.width + x

\* raytracer.rs:38 without the flip
UnflippedRow(height, j) == j

\* the row raytrace plots plane row j at (raytracer.rs:38)
FlippedRow(height, j) == (height - 1) - j

\* ScreenContextManager::plot_pixel, when the index is inside the framebuffer
plot_pixel(scr, x, y) ==
    [scr EXCEPT !.framebuffer[PlotIndex(scr, x, y) + 1] = scr.color]

InsideFramebuffer(scr, index) == index < Len(scr.framebuffer)

\* Observer, with the z of its plane (scene.rs:147-158)
Observer(camera, min_p, max_p) ==
    [camera |-> camera, min_p |-> min_p, max_p |-> max_p, plane_z |-> min_p.z]

\* raytracer.rs:17-18, 28-32: the primary ray of column i and row j
PixelRay(obs, scr, i, j) ==
    LET ratio_x == RoundDiv(obs.max_p.x - obs.min_p.x, scr.width)
        ratio_y == RoundDiv(obs.max_p.y - obs.min_p.y, scr.height)
        x_t == RoundDiv((2 * i + 1) * ratio_x, 2) + obs.min_p.x
        y_t == RoundDiv((2 * j + 1) * ratio_y, 2) + obs.min_p.y
    IN  from_2_points(obs.camera, Vec3(x_t, y_t, obs.plane_z))

\* raytracer.rs:23
UpdateInterval(scr) == scr.width \div 10

\* raytracer.rs:25-34: the next pixel of the loop, its primary ray cast
CastPrimaryRay ==
    /\ loop.pc = "pixel"
    /\ stack = <<>>
    /\ stack' = PrimaryCall(PixelRay(observer, screen, loop.i, loop.j))
    /\ calls' = 1
    /\ loop' = [loop EXCEPT !.pc = "trace"]
    /\ UNCHANGED <<scene, ret, screen, writes, observer, pureVars>>

\* raytracer.rs:37-38: set_color and plot_pixel of the colour returned
Paint ==
    /\ loop.pc = "trace"
    /\ stack = <<>>
    /\ LET x == loop.i
           y == FlippedRow(screen.height, loop.j)
           painted == set_color(screen, ret.value)
           index == PlotIndex(painted, x, y)
       IN  IF InsideFramebuffer(painted, index)
           THEN /\ screen' = plot_pixel(painted, x, y)
                /\ writes' = [writes EXCEPT ![index + 1] = Append(@, <<loop.i, loop.j>>)]
                /\ loop' = IF loop.j + 1 < screen.height
                           THEN [loop EXCEPT !.pc = "pixel", !.j = @ + 1]
                           ELSE [loop EXCEPT !.pc = "column_end"]
           ELSE /\ screen' = painted
                /\ loop' = [loop EXCEPT !.pc = "panic"]
                /\ UNCHANGED writes
    /\ UNCHANGED <<traceVars, observer, pureVars>>

NextColumn ==
    IF loop.i + 1 < screen.width
    THEN [loop EXCEPT !.pc = "pixel", !.i = @ + 1, !.j = 0]
    ELSE [loop EXCEPT !.pc = "finish"]

\* raytracer.rs:40: i % update_interval with update_interval = 0 panics
ColumnEndPanics ==
    /\ loop.pc = "column_end"
    /\ UpdateInterval(screen) = 0
    /\ loop' = [loop EXCEPT !.pc = "panic"]
    /\ UNCHANGED <<traceVars, screen, writes, observer, pureVars>>

\* raytracer.rs:40-42: no present is due after this column
ColumnEndSkips ==
    /\ loop.pc = "column_end"
    /\ UpdateInterval(screen) # 0
    /\ loop.i % UpdateInterval(screen) # 0
    /\ loop' = NextColumn
    /\ UNCHANGED <<traceVars, screen, writes, observer, pureVars>>

\* raytracer.rs:40-42: present is due; it succeeds or its error is returned
ColumnEndPresents ==
    /\ loop.pc = "column_end"
    /\ UpdateInterval(screen) # 0
    /\ loop.i % UpdateInterval(screen) = 0
    /\ \E ok \in BOOLEAN :
          loop' = IF ok THEN NextColumn ELSE [loop EXCEPT !.pc = "error"]
    /\ UNCHANGED <<traceVars, screen, writes, observer, pureVars>>

\* raytracer.rs:45-49: the last present and save_img; Ok(()) or their error
Finish ==
    /\ loop.pc = "finish"
    /\ \E ok \in BOOLEAN :
          loop' = [loop EXCEPT !.pc = IF ok THEN "done" ELSE "error"]
    /\ UNCHANGED <<traceVars, screen, writes, observer, pureVars>>

Raytrace ==
    \/ CastPrimaryRay
    \/ Paint
    \/ ColumnEndPanics
    \/ ColumnEndSkips
    \/ ColumnEndPresents
    \/ Finish

MaxWidth == 20
MaxHeight == 2

RenderScenes ==
    {Scene(objects, <<WhiteLight(1)>>, Half, Color(Half, 0, Half), WHITE) :
        objects \in {<<ZPlane(6, Mirror), ZPlane(-4, Mixed), ZPlane(-8, Opaque)>>}}

\* observers on the z axis whose plane is a single point of the axis
ObserverInputs ==
    {Observer(OnAxis(0), OnAxis(3), OnAxis(3)),
     Observer(OnAxis(-10), OnAxis(-13), OnAxis(-13))}

InitRender ==
    /\ scene \in RenderScenes
    /\ observer \in ObserverInputs
    /\ \E width \in 1..MaxWidth, height \in 1..MaxHeight :
          /\ screen = NewScreen(width, height)
          /\ writes = [k \in 1..(width * height) |-> <<>>]
    /\ loop = [pc |-> "pixel", i |-> 0, j |-> 0]
    /\ stack = <<>> /\ ret = NoRet /\ calls = 0
    /\ PureIdle

NextRender ==
    \/ Raytrace
    \/ GetColorPixel

SpecRender == InitRender /\ [][NextRender]_vars

\* the cell of pixel (i, j): row height-1-j, column i
CellOf(i, j) == (screen.height - 1 - j) * screen.width + i + 1

\* the pixels the loop has painted so far, columns outermost
PaintedSoFar ==
    {<<i, j>> \in (0..(screen.width - 1)) \X (0..(screen.height - 1)) :
        \/ i < loop.i
        \/ i = loop.i /\ j < loop.j
        \/ i = loop.i /\ loop.pc \in {"column_end", "finish", "done", "error"}
        \/ i = loop.i /\ loop.pc = "panic" /\ UpdateInterval(screen) = 0}

\* C1: for every width >= 1 and height >= 1 the pixel of column i and row j
\* is plotted at (i, height-1-j), whose index y*width+x lies inside the
\* framebuffer; no cell is plotted twice, and when raytrace returns Ok every
\* cell has been written exactly once.
EveryCellWrittenOnce ==
    /\ Len(screen.framebuffer) = screen.width * screen.height
    /\ Len(writes) = Len(screen.framebuffer)
    /\ loop.pc # "panic" \/ UpdateInterval(screen) = 0
    /\ \A k \in 1..Len(writes) : Len(writes[k]) <= 1
    /\ \A p \in PaintedSoFar :
          /\ CellOf(p[1], p[2]) \in 1..Len(writes)
          /\ writes[CellOf(p[1], p[2])] = <<p>>
    /\ \A k \in 1..Len(writes) :
          writes[k] # <<>> => (writes[k][1] \in PaintedSoFar /\ CellOf(writes[k][1][1], writes[k][1][2]) = k)
    /\ loop.pc = "done" =>
          \A k \in 1..Len(writes) : Len(writes[k]) = 1

\* raytrace has returned Ok from a screen of several rows and columns
RenderDone ==
    /\ loop.pc = "done"
    /\ screen.height > 1
    /\ screen.width >= 10

\* the cells plot_pixel has written so far
WrittenCells == {k \in 1..Len(writes) : writes[k] # <<>>}

Stopped == loop.pc \in {"panic", "error"}

\* C11: a render runs to completion over the whole width x height grid or
\* fails before any pixel is written: raytrace never stops with an error or a
\* panic after plotting some but not all of the pixels.
RenderAllOrNothing ==
    Stopped => (WrittenCells = {} \/ WrittenCells = 1..Len(writes))

----------------------------------------------------------------------------
(* Scene::read_config, Observer::read_config (scene.rs) and main (main.rs) *)

\* a byte of a #rrggbb colour as a channel (shapes.rs:81-83)
HexChannel(byte) == RoundDiv(byte * CScale, 255)

\* constants.rs:5, "#3D1A28"
DEFAULT_BG_COLOR == Color(HexChannel(61), HexChannel(26), HexChannel(40))

\* constants.rs:6, "#FFFFFF"
DEFAULT_LIGHT_COLOR == Color(HexChannel(255), HexChannel(255), HexChannel(255))

\* get_color_default: a missing key is the default, a bad colour is an error
get_color_default(raw, default) ==
    IF raw = Missing THEN Ok(default)
    ELSE IF raw = Malformed THEN Err("from_hex")
    ELSE Ok(raw.v)

\* a key with an empty or blank value: Some("") from the ini file
Blank == [t |-> "blank"]

\* a panic, which ends the run where an Err would be returned
Panic == [ok |-> FALSE, e |-> "panic"]

----------------------------------------------------------------------------
(* get_vec3_fails on the text of the value (scene.rs:196-240); a text is the
   sequence of its characters *)

\* str::trim
RECURSIVE TrimStart(_)
TrimStart(s) == IF s # <<>> /\ Head(s) = " " THEN TrimStart(Tail(s)) ELSE s
RECURSIVE TrimEnd(_)
TrimEnd(s) ==
    IF s # <<>> /\ s[Len(s)] = " " THEN TrimEnd(SubSeq(s, 1, Len(s) - 1)) ELSE s
Trim(s) == TrimEnd(TrimStart(s))

\* str::strip_prefix and str::strip_suffix of a one-character pattern
StripPrefix(s, c) ==
    IF s # <<>> /\ Head(s) = c THEN [some |-> TRUE, s |-> Tail(s)] ELSE [some |-> FALSE]
StripSuffix(s, c) ==
    IF s # <<>> /\ s[Len(s)] = c
    THEN [some |-> TRUE, s |-> SubSeq(s, 1, Len(s) - 1)]
    ELSE [some |-> FALSE]

\* str::split(','): the pieces between the commas, one piece for a text
\* without comma (the empty text included)
RECURSIVE SplitFrom(_, _, _)
SplitFrom(s, k, piece) ==
    IF k > Len(s) THEN <<piece>>
    ELSE IF s[k] = "," THEN <<piece>> \o SplitFrom(s, k + 1, <<>>)
    ELSE SplitFrom(s, k + 1, Append(piece, s[k]))
Split(s) == SplitFrom(s, 1, <<>>)

Digits == <<"0", "1", "2", "3", "4", "5", "6", "7", "8", "9">>
IsDigit(c) == \E d \in 1..Len(Digits) : Digits[d] = c
DigitValue(c) == (CHOOSE d \in 1..Len(Digits) : Digits[d] = c) - 1

\* the whole number a text of digits denotes
RECURSIVE DecimalValue(_, _)
DecimalValue(s, acc) ==
    IF s = <<>> THEN acc ELSE DecimalValue(Tail(s), 10 * acc + DigitValue(Head(s)))

\* str::parse::<f64> on texts of digits, '-', letters, blanks and delimiters:
\* an optional sign and at least one digit, nothing else
ParseUnsigned(s) ==
    IF s # <<>> /\ \A k \in 1..Len(s) : IsDigit(s[k])
    THEN Ok(DecimalValue(s, 0)) ELSE Err("parse")
ParseF64(s) ==
    IF s # <<>> /\ Head(s) = "-"
    THEN IF ParseUnsigned(Tail(s)).ok THEN Ok(-ParseUnsigned(Tail(s)).v)
         ELSE Err("parse")
    ELSE ParseUnsigned(s)

\* an error of get_vec3_fails: its message names the key and the section
Vec3Err(kind, section, key) ==
    [ok |-> FALSE, e |-> kind, section |-> section, key |-> key]

\* scene.rs:230-239: the elements of the text without its delimiters
Vec3OfElements(floats, section, key) ==
    IF \E k \in 1..Len(floats) : ~floats[k].ok
    THEN Vec3Err("elements aren't valid floating point numbers", section, key)
    ELSE IF Len(floats) # 3 THEN Vec3Err("should be 3-dimensional", section, key)
    ELSE Ok(Vec3(floats[1].v, floats[2].v, floats[3].v))
Vec3OfBody(pieces, section, key) ==
    Vec3OfElements([k \in 1..Len(pieces) |-> ParseF64(Trim(pieces[k]))], section, key)

\* scene.rs:214-228: the text between the delimiters
Vec3Delimited(trimmed, open, close, section, key) ==
    IF ~StripSuffix(StripPrefix(trimmed, open).s, close).some
    THEN Vec3Err("isn't terminated by the matching closing delimiter", section, key)
    ELSE Vec3OfBody(Split(StripSuffix(StripPrefix(trimmed, open).s, close).s),
                    section, key)

\* scene.rs:205-239 on the text the key holds: the unwrap of the first
\* character panics when the trimmed text is empty
Vec3OfTrimmed(vec_string, trimmed, section, key) ==
    IF trimmed = <<>> THEN Panic
    ELSE IF Head(trimmed) = "[" THEN Vec3Delimited(trimmed, "[", "]", section, key)
    ELSE IF Head(trimmed) = "(" THEN Vec3Delimited(trimmed, "(", ")", section, key)
    ELSE IF IsDigit(Head(trimmed)) THEN Vec3OfBody(Split(vec_string), section, key)
    ELSE Vec3Err("first element is not a valid delimiter or a valid number",
                 section, key)
Vec3OfText(vec_string, section, key) ==
    Vec3OfTrimmed(vec_string, Trim(vec_string), section, key)

\* the text Ini::get finds under the key of the section
Text(chars, section, key) ==
    [t |-> "text", chars |-> chars, section |-> section, key |-> key]

\* get_vec3_fails, as far as its outcome goes: the key must be there and
\* hold a well-formed 3-dimensional vector; on a blank value the unwrap of
\* the first character (scene.rs:205) panics
get_vec3_fails(raw) ==
    IF raw = Missing THEN Err("missing vector attribute")
    ELSE IF raw = Blank THEN Panic
    ELSE IF raw = Malformed THEN Err("vector")
    ELSE IF raw.t = "text" THEN Vec3OfText(raw.chars, raw.section, raw.key)
    ELSE Ok(raw.v)

\* where main stops when read_config does not return Ok
StoppedBy(read) == IF read = Panic THEN "panic" ELSE "error"

\* Result::or_else
OrElse(first, second) == IF first.ok THEN first ELSE second

\* the ? of a loop over sections: the first error, or all the values
Collect(rs) ==
    IF \E k \in 1..Len(rs) : ~rs[k].ok
    THEN rs[CHOOSE k \in 1..Len(rs) : ~rs[k].ok /\ \A j \in 1..(k - 1) : rs[j].ok]
    ELSE Ok([k \in 1..Len(rs) |-> rs[k].v])

\* the ? of consecutive statements: the first error of rs, or value
Try(rs, value) == IF Collect(rs).ok THEN Ok(value) ELSE Collect(rs)

\* scene.rs:40-52
ReadSphere(section) ==
    LET center == get_vec3_fails(section.center)
        radius == OrElse(get_float_fails(section.radius), get_float_fails(section.r))
        params == get_params(section.params)
    IN  Try(<<center, radius, params>>, NewSphere(center.v, radius.v, params.v))

\* scene.rs:54-66
ReadPlane(section) ==
    LET point == get_vec3_fails(section.point)
        normal == get_vec3_fails(section.normal)
        params == get_params(section.params)
    IN  Try(<<point, normal, params>>, NewPlane(normal.v, point.v, params.v))

\* scene.rs:69-98
ReadLight(section) ==
    LET position == get_vec3_fails(section.position)
        intensity == OrElse(get_float_fails(section.intensity), get_float_fails(section.I_p))
        c_1 == OrElse(get_float_fails(section.c_1), get_float_fails(section.C1))
        c_2 == OrElse(get_float_fails(section.c_2), get_float_fails(section.C2))
        c_3 == OrElse(get_float_fails(section.c_3), get_float_fails(section.C3))
        color == get_color_default(section.color, DEFAULT_LIGHT_COLOR)
    IN  Try(<<position, intensity, c_1, c_2, c_3, color>>,
            Light(position.v, FMax(intensity.v, 0), c_1.v, c_2.v, c_3.v, color.v))

ReadSections(Read(_), sections) ==
    Collect([k \in 1..Len(sections) |-> Read(sections[k])])

\* Scene::read_config
SceneReadConfig(config) ==
    LET ambient == get_float_fails(config.I_a)
        bg_color == get_color_default(config.bg_color, DEFAULT_BG_COLOR)
        ambient_color == get_color_default(config.ambient_color, DEFAULT_LIGHT_COLOR)
        spheres == ReadSections(ReadSphere, config.spheres)
        planes == ReadSections(ReadPlane, config.planes)
        lights == ReadSections(ReadLight, config.lights)
    IN  IF ~config.loads THEN Err("load")
        ELSE Try(<<ambient, bg_color, ambient_color, spheres, planes, lights>>,
                 Scene(spheres.v \o planes.v, lights.v, ambient.v, bg_color.v,
                       ambient_color.v))

\* Observer::read_config
ObserverReadConfig(config) ==
    LET camera == get_vec3_fails(config.camera)
        plane_z == get_float_default(config.z, 0)
        x_min == get_float_fails(config.x_min)
        y_min == get_float_fails(config.y_min)
        x_max == get_float_fails(config.x_max)
        y_max == get_float_fails(config.y_max)
    IN  IF ~config.loads THEN Err("load")
        ELSE Try(<<camera, plane_z, x_min, y_min, x_max, y_max>>,
                 Observer(camera.v, Vec3(x_min.v, y_min.v, plane_z.v),
                          Vec3(x_max.v, y_max.v, plane_z.v)))

NotRead == [ok |-> FALSE, e |-> "not read"]

\* main.rs:30: Scene::read_config(args.scene)?
MainReadScene ==
    /\ loop.pc = "read_scene"
    /\ LET read == SceneReadConfig(call.scene)
       IN  /\ result' = [result EXCEPT !.scene = read]
           /\ scene' = IF read.ok THEN read.v ELSE scene
           /\ loop' = [loop EXCEPT !.pc = IF read.ok THEN "read_observer"
                                          ELSE StoppedBy(read)]
    /\ UNCHANGED <<call, stack, ret, calls, screen, writes, observer>>

\* main.rs:32: Observer::read_config(observer_file)?
MainReadObserver ==
    /\ loop.pc = "read_observer"
    /\ LET read == ObserverReadConfig(call.observer)
       IN  /\ result' = [result EXCEPT !.observer = read]
           /\ observer' = IF read.ok THEN read.v ELSE observer
           /\ loop' = [loop EXCEPT !.pc = IF read.ok THEN "new_screen"
                                          ELSE StoppedBy(read)]
    /\ UNCHANGED <<call, traceVars, screen, writes>>

\* main.rs:35-38: the screen of the resolution asked for, and raytrace on it
MainNewScreen ==
    /\ loop.pc = "new_screen"
    /\ screen' = NewScreen(call.resolution, call.resolution)
    /\ writes' = [k \in 1..(call.resolution * call.resolution) |-> <<>>]
    /\ loop' = [loop EXCEPT !.pc = "pixel"]
    /\ UNCHANGED <<pureVars, traceVars, observer>>

Main ==
    \/ MainReadScene
    \/ MainReadObserver
    \/ MainNewScreen
    \/ Raytrace
    \/ GetColorPixel

\* the keys of an object's section that get_params reads
MaterialConfig(color, reflection, transparency) ==
    [color |-> Num(color), k_d |-> Num(One), k_a |-> Missing, k_s |-> Num(0),
     k_n |-> Missing, reflection |-> Num(reflection),
     transparency |-> Num(transparency), checkerboard |-> Missing]

PlaneSection(z, params) ==
    [point |-> Num(OnAxis(z)), normal |-> Num(Vec3(0, 0, -One)), params |-> params]

\* a scene file: a sphere far behind, a mirror in front of the origin, a
\* half reflecting, half transparent plane and an opaque one behind it, a light
GoodSceneConfig ==
    [loads |-> TRUE, I_a |-> Num(Half), bg_color |-> Num(Color(Half, 0, Half)),
     ambient_color |-> Missing,
     spheres |-> <<[center |-> Num(OnAxis(-20)), radius |-> Malformed, r |-> Num(2),
                    params |-> MaterialConfig(GREEN, 0, 0)]>>,
     planes |-> <<PlaneSection(6, MaterialConfig(WHITE, One, 0)),
                  PlaneSection(-4, MaterialConfig(BLUE, Half, Half)),
                  PlaneSection(-8, MaterialConfig(RED, 0, 0))>>,
     lights |-> <<[position |-> Num(OnAxis(1)), intensity |-> Missing, I_p |-> Num(One),
                   c_1 |-> Num(One), C1 |-> Missing, c_2 |-> Num(0), C2 |-> Missing,
                   c_3 |-> Num(0), C3 |-> Missing, color |-> Missing]>>]

SceneConfigInputs ==
    {GoodSceneConfig,
     [GoodSceneConfig EXCEPT !.loads = FALSE],
     [GoodSceneConfig EXCEPT !.I_a = Missing],
     [GoodSceneConfig EXCEPT !.I_a = Malformed],
     [GoodSceneConfig EXCEPT !.bg_color = Malformed],
     [GoodSceneConfig EXCEPT !.spheres[1].r = Missing],
     [GoodSceneConfig EXCEPT !.spheres[1].center = Malformed],
     [GoodSceneConfig EXCEPT !.planes[1].params.color = Missing],
     [GoodSceneConfig EXCEPT !.planes[2].params.transparency = Num(One)],
     [GoodSceneConfig EXCEPT !.planes[3].normal = Missing],
     [GoodSceneConfig EXCEPT !.planes[1].point = Blank],
     [GoodSceneConfig EXCEPT !.planes[3].params.k_n = Malformed],
     [GoodSceneConfig EXCEPT !.lights[1].position = Missing],
     [GoodSceneConfig EXCEPT !.lights[1].I_p = Missing],
     [GoodSceneConfig EXCEPT !.lights[1].color = Malformed]}

\* an observer file whose plane is the point (0, 0, z) of the axis
ObserverConfig(camera_z, z) ==
    [loads |-> TRUE, camera |-> Num(OnAxis(camera_z)), z |-> z, x_min |-> Num(0),
     y_min |-> Num(0), x_max |-> Num(0), y_max |-> Num(0)]

ObserverConfigInputs ==
    {ObserverConfig(0, Num(3)),
     ObserverConfig(-30, Num(-33)),
     ObserverConfig(-30, Missing),
     [ObserverConfig(0, Num(3)) EXCEPT !.loads = FALSE],
     [ObserverConfig(0, Num(3)) EXCEPT !.camera = Missing],
     [ObserverConfig(0, Num(3)) EXCEPT !.camera = Blank],
     [ObserverConfig(0, Num(3)) EXCEPT !.x_min = Missing],
     [ObserverConfig(0, Num(3)) EXCEPT !.y_max = Malformed],
     ObserverConfig(0, Malformed)}

MaxRes == 20

ResolutionInputs == {1, 2, MaxRes}

InitMain ==
    /\ call \in [fn : {"main"}, scene : SceneConfigInputs,
                 observer : ObserverConfigInputs, resolution : ResolutionInputs]
    /\ result = [op |-> "main", scene |-> NotRead, observer |-> NotRead]
    /\ loop = [pc |-> "read_scene", i |-> 0, j |-> 0]
    /\ screen = NoScreen /\ writes = <<>> /\ observer = NoObserver
    /\ TraceIdle

SpecMain == InitMain /\ [][Main]_vars

Bad(raw) == raw \in {Missing, Malformed, Blank}

\* reflection + transparency > 1, each clamped to [0, 1]
WeightsAboveOne(params) ==
    /\ ~Bad(params.reflection) /\ ~Bad(params.transparency)
    /\ FClamp(params.reflection.v, 0, One) + FClamp(params.transparency.v, 0, One) > One

\* a section of an object lacks a key or holds a malformed one, a bad colour
\* or weights above 1
ParamsFaulty(params) ==
    \/ Bad(params.color) \/ Bad(params.k_d) \/ Bad(params.k_s)
    \/ \E key \in {"k_a", "k_n", "reflection", "transparency", "checkerboard"} :
          params[key] = Malformed
    \/ WeightsAboveOne(params)

LightFaulty(light) ==
    \/ Bad(light.position)
    \/ Bad(light.intensity) /\ Bad(light.I_p)
    \/ Bad(light.c_1) /\ Bad(light.C1)
    \/ Bad(light.c_2) /\ Bad(light.C2)
    \/ Bad(light.c_3) /\ Bad(light.C3)
    \/ light.color = Malformed

SceneConfigFaulty(config) ==
    \/ ~config.loads
    \/ Bad(config.I_a) \/ config.bg_color = Malformed \/ config.ambient_color = Malformed
    \/ \E k \in 1..Len(config.spheres) :
          LET sphere == config.spheres[k]
          IN  \/ Bad(sphere.center)
              \/ Bad(sphere.radius) /\ Bad(sphere.r)
              \/ ParamsFaulty(sphere.params)
    \/ \E k \in 1..Len(config.planes) :
          LET plane == config.planes[k]
          IN  Bad(plane.point) \/ Bad(plane.normal) \/ ParamsFaulty(plane.params)
    \/ \E k \in 1..Len(config.lights) : LightFaulty(config.lights[k])

ObserverConfigFaulty(config) ==
    \/ ~config.loads
    \/ Bad(config.camera) \/ config.z = Malformed
    \/ Bad(config.x_min) \/ Bad(config.y_min) \/ Bad(config.x_max) \/ Bad(config.y_max)

\* the screen exists, raytrace is under way or over, or a cell is written
RenderBegun ==
    \/ screen # NoScreen
    \/ loop.pc \in {"pixel", "trace", "column_end", "finish", "done"}
    \/ WrittenCells # {}

ConfigFaulty == SceneConfigFaulty(call.scene) \/ ObserverConfigFaulty(call.observer)

\* C12: in every run of main no pixel is plotted unless Scene::read_config
\* and Observer::read_config have both returned successfully; a configuration
\* error (a missing or malformed key, reflection + transparency > 1, a bad
\* colour) is returned to the caller before the screen is created and before
\* raytrace is called, so there is never a partial render.
ConfigErrorReturnedBeforeRender ==
    /\ RenderBegun => (result.scene.ok /\ result.observer.ok)
    /\ ConfigFaulty =>
          /\ ~RenderBegun
          /\ loop.pc \in {"read_scene", "read_observer", "error"}
          /\ loop.pc = "error" => (~result.scene.ok \/ ~result.observer.ok)

\* the part of it about the order: faulty files never get as far as a screen
NoRenderOnConfigFault ==
    /\ RenderBegun => (result.scene.ok /\ result.observer.ok)
    /\ ConfigFaulty => (~RenderBegun /\ screen = NoScreen)

----------------------------------------------------------------------------
(* The shading of one hit point under the lights taken in every order *)

\* the lists that hold the elements of seq in some order
Reorderings(seq) ==
    {[i \in 1..Len(seq) |-> seq[p[i]]] :
        p \in {q \in [1..Len(seq) -> 1..Len(seq)] :
                  \A i, j \in 1..Len(seq) : q[i] = q[j] => i = j}}

\* a glossy opaque surface
Glossy ==
    get_params([color |-> Num(WHITE), k_d |-> Num(One), k_a |-> Missing,
                k_s |-> Num(Half), k_n |-> Missing, reflection |-> Missing,
                transparency |-> Missing, checkerboard |-> Missing]).v

MaxLights == 2

\* lights on the axis in front of the surface; c_1 is taken as the file gives it
LightInputs ==
    {Light(OnAxis(z), intensity, c_1, 0, 0, WHITE) :
        z \in {1, 3}, intensity \in {Half, One}, c_1 \in {One, 2 * One, -One}}

InitLights ==
    /\ call \in [fn : {"lights"}, lights : SeqsUpTo(LightInputs, MaxLights),
                 object : {ZPlane(6, Glossy)}]
    /\ result = Pending
    /\ TraceIdle /\ RenderIdle

\* the scene of the call with its lights in the given order
LitScene(lights) == Scene(<<call.object>>, lights, Tenth, BLACK, WHITE)

LitRay == from_2_points(OnAxis(0), OnAxis(3))

\* raytracer.rs:87-101, .sum::<Color>()
DiffuseSum(ray, inter, scn) ==
    ColorSum(Diffuse(inter.object, get_normal_vec(inter.object, inter.point),
                     LightTerms(inter, scn), scn))

\* raytracer.rs:106-125, .sum::<Color>()
SpecularSum(ray, inter, scn) ==
    ColorSum(Specular(inter.object, get_normal_vec(inter.object, inter.point),
                      F64MulV(-One, ray.dir), LightTerms(inter, scn),
                      ColorMul(TotalIntensity(inter.object,
                                              get_normal_vec(inter.object, inter.point),
                                              LightTerms(inter, scn), scn),
                               get_color_at(inter.object, inter.point)),
                      scn))

\* get_color_pixel's shading of the hit, once per order of the lights
DoShadeLights ==
    /\ call.fn = "lights"
    /\ result = Pending
    /\ LET orders == Reorderings(call.lights)
           inter == get_first_intersection(LitRay, LitScene(call.lights))
       IN  result' =
             [op |-> "lights",
              diffuse |-> {DiffuseSum(LitRay, inter, LitScene(o)) : o \in orders},
              specular |-> {SpecularSum(LitRay, inter, LitScene(o)) : o \in orders},
              color |-> {ObjectColor(LitRay, inter, LitScene(o)) : o \in orders}]
    /\ UNCHANGED <<call, traceVars, renderVars>>

NextLights == DoShadeLights

SpecLights == InitLights /\ [][NextLights]_vars

\* C13: the order of the light list is irrelevant: for a fixed hit point the
\* summed diffuse term, the summed specular term and the colour returned are
\* the same for every permutation of the lights, for all intensities and
\* attenuation coefficients the configuration accepts.
LightOrderIrrelevant ==
    result.op = "lights" =>
        /\ Cardinality(result.diffuse) = 1
        /\ Cardinality(result.specular) = 1
        /\ Cardinality(result.color) = 1

\* the same where no light has a negative attenuation
LightOrderIrrelevantOffNegative ==
    (result.op = "lights" /\ \A k \in 1..Len(call.lights) : call.lights[k].c_1 >= 0) =>
        /\ Cardinality(result.diffuse) = 1
        /\ Cardinality(result.specular) = 1
        /\ Cardinality(result.color) = 1

----------------------------------------------------------------------------
(* get_color_at on chosen texture coordinates and tile sizes *)

\* coordinates and tile sizes, in units of which the quotients are whole or
\* halves, up to the largest i32
CoordInputs == {1 - I32_MAX, -3, -2, -1, 0, 1, 2, 3, 5, I32_MAX - 1, I32_MAX}
TileInputs == {-1, 0, 1, 2}

\* a surface of colour RED whose checkerboard key is tile
Checkered(tile) ==
    ZPlane(0, [Material(RED, 0, 0) EXCEPT !.checkerboard = tile])

InitChecker ==
    /\ call \in [fn : {"get_color_at"}, u : CoordInputs, v : CoordInputs,
                 tile : TileInputs]
    /\ result = Pending
    /\ TraceIdle /\ RenderIdle

\* get_color_at, in a build with overflow checks (debug) or without (release)
DoGetColorAt ==
    /\ call.fn = "get_color_at"
    /\ result = Pending
    /\ \E checks \in BOOLEAN :
          LET object == Checkered(call.tile)
              coords == [x |-> call.u, y |-> call.v]
          IN  result' =
                IF checks /\ object.params.checkerboard > 0 /\ CheckerPanics(coords, object)
                THEN [op |-> "get_color_at", panic |-> TRUE, value |-> BLACK]
                ELSE [op |-> "get_color_at", panic |-> FALSE,
                      value |-> ColorAtCoords(object, coords)]
    /\ UNCHANGED <<call, traceVars, renderVars>>

NextChecker == DoGetColorAt

SpecChecker == InitChecker /\ [][NextChecker]_vars

\* floor(u/s) + floor(v/s) is even
EvenTile(u, v, tile) == ((u \div tile) % 2) = ((v \div tile) % 2)

CheckerAsStated ==
    /\ ~result.panic
    /\ result.value = IF call.tile <= 0 \/ EvenTile(call.u, call.v, call.tile)
                      THEN RED ELSE BLACK

\* C14: for every (u, v) and tile size s > 0 get_color_at returns the base
\* colour when floor(u/s) + floor(v/s) is even and black when it is odd, for
\* negative quotients and quotients of any magnitude (the conversion to i32
\* and the addition neither change the parity nor overflow); for a tile
\* size <= 0 it returns the base colour.
CheckerParity == result.op = "get_color_at" => CheckerAsStated

\* the same for quotients below the largest i32 whose sum stays an i32
CheckerParitySmall ==
    (/\ result.op = "get_color_at"
     /\ call.u \in -5..5 /\ call.v \in -5..5) => CheckerAsStated

----------------------------------------------------------------------------
(* the loop body's sink calls issued by several workers against one sink *)

MaxWorkers == 2
SinkWidth == 2
SinkHeight == 2

Workers == 1..MaxWorkers

\* the pixels (i, j) in the order of the loops of raytrace (raytracer.rs:26-27)
PixelsInLoopOrder ==
    [k \in 1..(SinkWidth * SinkHeight) |->
        <<(k - 1) \div SinkHeight, (k - 1) % SinkHeight>>]

LoopRank(p) == p[1] * SinkHeight + p[2]

\* the colour get_color_pixel returns for pixel p (raytracer.rs:34): it takes
\* its arguments by value and reads the scene only, so it is a function of p
Palette == <<RED, GREEN, BLUE, WHITE>>
PixelColor(p) == Palette[(LoopRank(p) % Len(Palette)) + 1]

\* the sequential loop's sink calls (raytracer.rs:26-39)
RECURSIVE SequentialLoop(_, _)
SequentialLoop(scr, pixels) ==
    IF pixels = <<>> THEN scr
    ELSE LET p == Head(pixels)
             painted == set_color(scr, PixelColor(p))
         IN  SequentialLoop(plot_pixel(painted, p[1], FlippedRow(scr.height, p[2])),
                            Tail(pixels))

\* the worker a pixel belongs to when columns, rows or diagonal tiles are
\* dealt out
SplitInputs == {"columns", "rows", "tiles"}
Owner(split, p) ==
    1 + (CASE split = "columns" -> p[1] % MaxWorkers
           [] split = "rows" -> p[2] % MaxWorkers
           [] OTHER -> (p[1] + p[2]) % MaxWorkers)

WorkerPixels(split, w) ==
    SelectSeq(PixelsInLoopOrder, LAMBDA p : Owner(split, p) = w)

InitWorkers ==
    /\ \E split \in SplitInputs :
          /\ call = [fn |-> "workers", split |-> split]
          /\ loop = [pc |-> "workers",
                     todo |-> [w \in Workers |-> WorkerPixels(split, w)],
                     stage |-> [w \in Workers |-> "set_color"],
                     setter |-> 0, torn |-> FALSE, reordered |-> FALSE]
    /\ screen = NewScreen(SinkWidth, SinkHeight)
    /\ result = Pending
    /\ writes = <<>>
    /\ observer = NoObserver
    /\ TraceIdle

\* raytracer.rs:37 issued by worker w for its next pixel
WorkerSetColor(w) ==
    /\ loop.pc = "workers"
    /\ loop.todo[w] # <<>>
    /\ loop.stage[w] = "set_color"
    /\ screen' = set_color(screen, PixelColor(Head(loop.todo[w])))
    /\ loop' = [loop EXCEPT !.stage[w] = "plot_pixel", !.setter = w]
    /\ UNCHANGED <<pureVars, traceVars, writes, observer>>

\* raytracer.rs:38 issued by worker w for the same pixel; torn records that
\* another worker's set_color came between the two calls, reordered that a
\* pixel earlier in the loop order was still to be plotted
WorkerPlotPixel(w) ==
    /\ loop.pc = "workers"
    /\ loop.todo[w] # <<>>
    /\ loop.stage[w] = "plot_pixel"
    /\ LET p == Head(loop.todo[w])
       IN  /\ screen' = plot_pixel(screen, p[1], FlippedRow(screen.height, p[2]))
           /\ loop' = [loop EXCEPT
                 !.todo[w] = Tail(@),
                 !.stage[w] = "set_color",
                 !.torn = @ \/ loop.setter # w,
                 !.reordered = @ \/ \E v \in Workers \ {w} :
                     \E k \in 1..Len(loop.todo[v]) :
                         LoopRank(loop.todo[v][k]) < LoopRank(p)]
    /\ UNCHANGED <<pureVars, traceVars, writes, observer>>

NextWorkers == \E w \in Workers : WorkerSetColor(w) \/ WorkerPlotPixel(w)

SpecWorkers == InitWorkers /\ [][NextWorkers]_vars

WorkersDone ==
    /\ loop.pc = "workers"
    /\ \A w \in Workers : loop.todo[w] = <<>>

SequentialFramebuffer ==
    SequentialLoop(NewScreen(SinkWidth, SinkHeight), PixelsInLoopOrder).framebuffer

\* C15 as stated: workers that render disjoint sets of pixels against the
\* same sink, each calling set_color then plot_pixel for its own pixels,
\* leave the framebuffer of the sequential loop under every interleaving of
\* those calls.
InterleavedCallsGiveSequentialFramebuffer ==
    WorkersDone => screen.framebuffer = SequentialFramebuffer

\* C15 amended: the framebuffer is the sequential loop's, cell
\* (height - 1 - j) * width + i holding the bytes of pixel (i, j)'s colour,
\* under every interleaving in which no other worker's set_color comes
\* between a worker's set_color and its plot_pixel; the order of the pixels
\* is free.
UntornCallsGiveSequentialFramebuffer ==
    (WorkersDone /\ ~loop.torn) =>
        /\ screen.framebuffer = SequentialFramebuffer
        /\ \A k \in 1..Len(PixelsInLoopOrder) :
              LET p == PixelsInLoopOrder[k]
                  c == PixelColor(p)
              IN  screen.framebuffer[(SinkHeight - 1 - p[2]) * SinkWidth + p[1] + 1]
                      = <<Byte(c.r), Byte(c.g), Byte(c.b)>>

\* all pixels plotted out of the loop's order with every pair of calls kept
\* together
PlottedOutOfOrderUntorn == WorkersDone /\ ~loop.torn /\ loop.reordered

----------------------------------------------------------------------------
(* Vec3 rotations and alignment (vec3.rs) *)

\* an angle is a count of quarter turns: there f64::sin and f64::cos are 0 or
\* +-1 up to an error far below the resolution of the numbers
Sin(angle) == <<0, One, 0, -One>>[(angle % 4) + 1]
Cos(angle) == <<One, 0, -One, 0>>[(angle % 4) + 1]

\* Vec3::rotate_x
rotate_x(self, angle) ==
    Vec3(self.x,
         FMul(self.y, Cos(angle)) - FMul(self.z, Sin(angle)),
         FMul(self.y, Sin(angle)) + FMul(self.z, Cos(angle)))

\* Vec3::rotate_y
rotate_y(self, angle) ==
    Vec3(FMul(self.x, Cos(angle)) + FMul(self.y, Sin(angle)),
         self.y,
         FMul(FMul(-One, self.x), Sin(angle)) + FMul(self.z, Cos(angle)))

\* Vec3::rotate_z
rotate_z(self, angle) ==
    Vec3(FMul(self.x, Cos(angle)) + FMul(self.y, Sin(angle)),
         FMul(self.x, Sin(angle)) - FMul(self.y, Cos(angle)),
         self.z)

\* the constant I of to_align
IdentityMatrix == <<<<One, 0, 0>>, <<0, One, 0>>, <<0, 0, One>>>>

\* matrix_sum, matrix_mul_k
matrix_sum(a, b) == [i \in 1..3 |-> [j \in 1..3 |-> FAdd(a[i][j], b[i][j])]]
matrix_mul_k(a, k) == [i \in 1..3 |-> [j \in 1..3 |-> FMul(a[i][j], k)]]

\* (c + 1.0).abs() < TOLERANCE
Antiparallel(c) == ToL(Abs(c + One)) < TOLERANCE

\* the matrix of to_align past the antiparallel test, for the unit vectors a
\* and b with dot product c
AlignMatrix(a, b, c) ==
    LET v == Cross(a, b)
        skew == <<<<0, -v.z, v.y>>, <<v.z, 0, -v.x>>, <<-v.y, v.x, 0>>>>
        vxvy == FMul(v.x, v.y)
        vxvz == FMul(v.x, v.z)
        vyvz == FMul(v.y, v.z)
        vx2 == FMul(v.x, v.x)
        vy2 == FMul(v.y, v.y)
        vz2 == FMul(v.z, v.z)
        skew2 == <<<<-vy2 - vz2, vxvy, vxvz>>,
                   <<vxvy, -vx2 - vz2, vyvz>>,
                   <<vxvz, vyvz, -vx2 - vy2>>>>
    IN  matrix_sum(IdentityMatrix,
                   matrix_sum(skew, matrix_mul_k(skew2, FDiv(One, One + c))))

\* Vec3::to_align, of nonzero vectors
to_align(self, target) ==
    LET a == Normalize(self)
        b == Normalize(target)
        c == Dot(a, b)
    IN  IF Antiparallel(c) THEN IdentityMatrix ELSE AlignMatrix(a, b, c)

\* Vec3::apply_matrix
apply_matrix(self, matrix) ==
    Vec3(FMul(matrix[1][1], self.x) + FMul(matrix[1][2], self.y) + FMul(matrix[1][3], self.z),
         FMul(matrix[2][1], self.x) + FMul(matrix[2][2], self.y) + FMul(matrix[2][3], self.z),
         FMul(matrix[3][1], self.x) + FMul(matrix[3][2], self.y) + FMul(matrix[3][3], self.z))

\* Vec3::translation
translation(self, x, y, z) == VAdd(self, Vec3(x, y, z))

----------------------------------------------------------------------------
(* to_align and apply_matrix on chosen nonzero vectors *)

MaxScale == 2

\* the axis directions and the directions of the 3-4-5 triangles, at lengths
\* up to MaxScale times their own
AlignDirs ==
    {Vec3(1, 0, 0), Vec3(-1, 0, 0), Vec3(0, 1, 0), Vec3(0, -1, 0),
     Vec3(0, 0, 1), Vec3(0, 0, -1),
     Vec3(3, 4, 0), Vec3(-3, -4, 0), Vec3(0, 3, 4), Vec3(4, 0, -3)}
AlignInputs ==
    {Vec3(k * d.x, k * d.y, k * d.z) : k \in 1..MaxScale, d \in AlignDirs}

InitAlign ==
    /\ call \in [fn : {"to_align"}, a : AlignInputs, b : AlignInputs]
    /\ result = Pending
    /\ TraceIdle /\ RenderIdle

\* a.to_align(b), then apply_matrix of the normalised a
DoAlign ==
    /\ call.fn = "to_align"
    /\ result = Pending
    /\ LET matrix == to_align(call.a, call.b)
       IN  result' = [op |-> "to_align", matrix |-> matrix,
                      image |-> apply_matrix(Normalize(call.a), matrix)]
    /\ UNCHANGED <<call, traceVars, renderVars>>

NextAlign == DoAlign

SpecAlign == InitAlign /\ [][NextAlign]_vars

\* the products of the fixed-point numbers are rounded: two unit vectors
\* are the same direction when their components differ by no more than
\* MaxRounding counts of 0.0001
MaxRounding == 2
SameDirection(u, v) ==
    /\ Abs(u.x - v.x) <= MaxRounding
    /\ Abs(u.y - v.y) <= MaxRounding
    /\ Abs(u.z - v.z) <= MaxRounding

\* the dot product of the two directions is within tolerance of -1
AlignAntiparallel == Antiparallel(Dot(Normalize(call.a), Normalize(call.b)))

\* C19: for all nonzero a and b, a.to_align(b) maps the direction of a onto
\* the direction of b (apply_matrix of the normalised a equals the
\* normalised b); for antiparallel a and b it is the identity matrix
\* instead of a division by 1 + dot.
AlignMapsOntoTarget ==
    result.op = "to_align" =>
        /\ SameDirection(result.image, Normalize(call.b))
        /\ AlignAntiparallel => result.matrix = IdentityMatrix

\* the same for directions that are not antiparallel
AlignMapsOntoTargetOffAntiparallel ==
    (result.op = "to_align" /\ ~AlignAntiparallel) =>
        SameDirection(result.image, Normalize(call.b))

\* antiparallel directions get the identity matrix
AlignAntiparallelIsIdentity ==
    (result.op = "to_align" /\ AlignAntiparallel) =>
        result.matrix = IdentityMatrix

----------------------------------------------------------------------------
(* rotate_x, rotate_y, rotate_z on quarter turns *)

RotateInputs ==
    {Vec3(x, y, z) : x \in -MaxScale..MaxScale, y \in -MaxScale..MaxScale,
                     z \in -MaxScale..MaxScale}

InitRotate ==
    /\ call \in [fn : {"rotate"}, axis : {"x", "y", "z"}, v : RotateInputs,
                 angle : 0..3]
    /\ result = Pending
    /\ TraceIdle /\ RenderIdle

DoRotate ==
    /\ call.fn = "rotate"
    /\ result = Pending
    /\ result' = [op |-> "rotate",
                  image |-> CASE call.axis = "x" -> rotate_x(call.v, call.angle)
                              [] call.axis = "y" -> rotate_y(call.v, call.angle)
                              [] call.axis = "z" -> rotate_z(call.v, call.angle)]
    /\ UNCHANGED <<call, traceVars, renderVars>>

NextRotate == DoRotate

SpecRotate == InitRotate /\ [][NextRotate]_vars

Norm2(v) == v.x * v.x + v.y * v.y + v.z * v.z

\* what a rotation about the axis of the call does to the vector of the call
IsRotationAboutAxis ==
    /\ call.angle = 0 => result.image = call.v
    /\ call.axis = "x" => result.image.x = call.v.x
    /\ call.axis = "y" => result.image.y = call.v.y
    /\ call.axis = "z" => result.image.z = call.v.z
    /\ Norm2(result.image) = Norm2(call.v)

\* C20: rotate_x, rotate_y and rotate_z are rotations about their own axis:
\* angle 0 returns the vector unchanged, the component along the axis is
\* left unchanged, and the norm is preserved, on every multiple of a quarter
\* turn.
RotationsAreRotations == result.op = "rotate" => IsRotationAboutAxis

\* the same for rotate_x alone
RotateXIsRotation ==
    (result.op = "rotate" /\ call.axis = "x") => IsRotationAboutAxis

\* rotate_y and rotate_z leave the component along their axis unchanged
RotateKeepsAxisComponent ==
    result.op = "rotate" =>
        /\ call.axis = "y" => result.image.y = call.v.y
        /\ call.axis = "z" => result.image.z = call.v.z

----------------------------------------------------------------------------
(* Plane::get_intersection and Disc::get_intersection on chosen rays *)

MaxDiscRadius == 10

\* coordinates in steps of 5, on which the products with the components 0.6
\* and 0.8 of the 3-4-5 directions are whole
FlatPoints == {Vec3(0, 0, 0), Vec3(0, 0, 10), Vec3(5, 0, -5), Vec3(0, -10, 5)}
FlatNormals == {Vec3(0, 0, 1), Vec3(0, -2, 0), Vec3(3, 4, 0), Vec3(0, 3, -4)}
FlatRayDirs ==
    AxisDirs \cup {Vec3(6000, 8000, 0), Vec3(0, -6000, 8000), Vec3(8000, 0, -6000)}
FlatRayAnchors == {Vec3(0, 0, 0), Vec3(5, 0, 0), Vec3(0, -5, 10), Vec3(10, 5, -5)}

FlatInputs ==
    {NewPlane(n, p, Opaque) : n \in FlatNormals, p \in FlatPoints}
    \cup {NewDisc(n, p, r, Opaque) :
            n \in FlatNormals, p \in FlatPoints, r \in {5, MaxDiscRadius}}

InitFlat ==
    /\ call \in [fn : {"get_intersection"}, object : FlatInputs,
                 ray : {Ray(a, d) : a \in FlatRayAnchors, d \in FlatRayDirs}]
    /\ result = Pending
    /\ TraceIdle /\ RenderIdle

DoPlaneIntersection ==
    /\ call.fn = "get_intersection"
    /\ call.object.kind = "plane"
    /\ result = Pending
    /\ result' = [op |-> "get_intersection",
                  value |-> PlaneIntersection(call.object, call.ray)]
    /\ UNCHANGED <<call, traceVars, renderVars>>

DoDiscIntersection ==
    /\ call.fn = "get_intersection"
    /\ call.object.kind = "disc"
    /\ result = Pending
    /\ result' = [op |-> "get_intersection",
                  value |-> DiscIntersection(call.object, call.ray)]
    /\ UNCHANGED <<call, traceVars, renderVars>>

NextFlat == DoPlaneIntersection \/ DoDiscIntersection

SpecFlat == InitFlat /\ [][NextFlat]_vars

\* the point of the surface the ray is measured against
FlatAnchor(object) == IF object.kind = "plane" THEN object.anchor ELSE object.center

\* (anchor - ray.anchor).n as a sum of whole products, in counts of
\* 1 / CScale of the unit of length, and dir.n as a unit-range number
FlatNumerator(object, ray) ==
    LET d == VSub(FlatAnchor(object), ray.anchor)
    IN  d.x * object.normal.x + d.y * object.normal.y + d.z * object.normal.z
FlatDenominator(object, ray) ==
    (ray.dir.x * object.normal.x + ray.dir.y * object.normal.y
      + ray.dir.z * object.normal.z) \div CScale

\* t is the quotient numerator / denominator rounded to a whole count
IsQuotient(t, numerator, denominator) ==
    2 * Abs(t * denominator - numerator) <= Abs(denominator)

\* the squared distance of the ray's point at t from the disc's centre
RimDistance2(disc, ray, t) == Dist2(point_at_t(ray, t), disc.center)

FlatAsStated ==
    LET object == call.object
        ray == call.ray
        numerator == FlatNumerator(object, ray)
        denominator == FlatDenominator(object, ray)
        hit == /\ denominator # 0
               /\ numerator * denominator > 0
               /\ object.kind = "disc" =>
                     \E t \in 1..(4 * MaxDiscRadius) :
                         /\ IsQuotient(t, numerator, denominator)
                         /\ RimDistance2(object, ray, t) <= object.r * object.r
    IN  IF hit
        THEN /\ result.value.some
             /\ result.value.t > 0
             /\ IsQuotient(result.value.t, numerator, denominator)
        ELSE result.value = None

\* C18: Plane::get_intersection returns none when |dir.n| is below the
\* tolerance and otherwise t = (anchor - ray.anchor).n / (dir.n) only when
\* t > 0; Disc::get_intersection returns that t only when in addition the hit
\* point is no farther from the centre than the radius, the rim included,
\* and none otherwise.
PlaneAndDiscIntersections == result.op = "get_intersection" => FlatAsStated

\* a disc hit exactly on its rim
DiscHitOnRim ==
    /\ result.op = "get_intersection"
    /\ call.object.kind = "disc"
    /\ result.value.some
    /\ RimDistance2(call.object, call.ray, result.value.t)
          = call.object.r * call.object.r

----------------------------------------------------------------------------
(* Triangle (shapes.rs) *)

\* Vec3::cross and Vec3::dot of two vectors of lengths: whole products
CrossOfLengths(a, b) ==
    Vec3(a.y * b.z - a.z * b.y, a.z * b.x - a.x * b.z, a.x * b.y - a.y * b.x)
DotOfLengths(a, b) == a.x * b.x + a.y * b.y + a.z * b.z

\* Triangle::new; the normal of a triangle without area is NaN
NewTriangle(a, b, c, params) ==
    LET n == CrossOfLengths(VSub(b, a), VSub(c, a))
    IN  [kind |-> "triangle", a |-> a, b |-> b, c |-> c,
         normal |-> IF Norm(n) = 0 THEN Vec3(NaN, NaN, NaN) ELSE Normalize(n),
         params |-> params]

\* a test that lets the negative weights through
AtMostOne(weight) == weight <= One

\* 0.0 <= weight && weight <= 1.0
InUnitRange(weight) == 0 <= weight /\ weight <= One

\* the branch of Triangle::get_intersection past the parallel test
TriangleHit(triangle, ray, denominator) ==
    LET t == FDiv(FMul(One, Dot(VSub(triangle.a, ray.anchor), triangle.normal)),
                  denominator)
        p == point_at_t(ray, t)
        u == VSub(triangle.b, triangle.a)
        v == VSub(triangle.c, triangle.a)
        n == CrossOfLengths(u, v)
        w == VSub(p, triangle.a)
        n2 == DotOfLengths(n, n)
        gamma == FDiv(DotOfLengths(CrossOfLengths(u, w), n), n2)
        beta == FDiv(DotOfLengths(CrossOfLengths(w, v), n), n2)
        alpha == One - gamma - beta
    IN  IF t > 0 /\ InUnitRange(alpha) /\ InUnitRange(beta) /\ InUnitRange(gamma)
        THEN Some(t)
        ELSE None

\* Triangle::get_intersection; with a NaN normal the denominator and t are
\* NaN, and every comparison with them is false
TriangleIntersection(triangle, ray) ==
    IF IsNan(triangle.normal.x) THEN None
    ELSE LET denominator == Dot(triangle.normal, ray.dir)
         IN  IF Parallel(denominator) THEN None
             ELSE TriangleHit(triangle, ray, denominator)

MaxLeg == 4

\* triangles in the plane z = 0, in the plane z = MaxLeg with the opposite
\* winding, in a tilted plane, and one without area
TriangleInputs ==
    {NewTriangle(Vec3(0, 0, 0), Vec3(MaxLeg, 0, 0), Vec3(0, MaxLeg, 0), Opaque),
     NewTriangle(Vec3(0, 0, MaxLeg), Vec3(0, MaxLeg, MaxLeg), Vec3(MaxLeg, 0, MaxLeg), Opaque),
     NewTriangle(Vec3(0, 0, 0), Vec3(4, -3, 0), Vec3(0, 0, 5), Opaque),
     NewTriangle(Vec3(0, 0, 0), Vec3(2, 0, 0), Vec3(MaxLeg, 0, 0), Opaque)}

TriangleRayAnchors ==
    {Vec3(x, y, z) : x \in {-1, 0, 1, 2, 5}, y \in {-3, 0, 1, 2}, z \in {-5, 0, 2, 10}}
TriangleRayDirs ==
    AxisDirs \cup {Vec3(0, 6000, 8000), Vec3(-6000, 0, -8000), Vec3(8000, 6000, 0)}

InitTriangle ==
    /\ call \in [fn : {"get_intersection"}, object : TriangleInputs,
                 ray : {Ray(a, d) : a \in TriangleRayAnchors, d \in TriangleRayDirs}]
    /\ result = Pending
    /\ TraceIdle /\ RenderIdle

DoTriangleIntersection ==
    /\ call.fn = "get_intersection"
    /\ call.object.kind = "triangle"
    /\ result = Pending
    /\ result' = [op |-> "get_intersection",
                  value |-> TriangleIntersection(call.object, call.ray)]
    /\ UNCHANGED <<call, traceVars, renderVars>>

NextTriangle == DoTriangleIntersection

SpecTriangle == InitTriangle /\ [][NextTriangle]_vars

\* the signed area, times |n|, of the triangle (from, to, p): the weight of
\* the corner opposite the edge from -> to, times n.n
EdgeWeight(triangle, from, to, p) ==
    DotOfLengths(CrossOfLengths(VSub(to, from), VSub(p, from)),
                 CrossOfLengths(VSub(triangle.b, triangle.a), VSub(triangle.c, triangle.a)))

\* the three barycentric weights of p, which add up to 1, lie in [0,1]
WeightsInUnitRange(triangle, p) ==
    /\ EdgeWeight(triangle, triangle.a, triangle.b, p) >= 0
    /\ EdgeWeight(triangle, triangle.b, triangle.c, p) >= 0
    /\ EdgeWeight(triangle, triangle.c, triangle.a, p) >= 0

\* t = (a - ray.anchor).n / (dir.n)
TriangleT(triangle, ray) ==
    FDiv(FMul(One, Dot(VSub(triangle.a, ray.anchor), triangle.normal)),
         Dot(triangle.normal, ray.dir))

TriangleAsStated ==
    LET triangle == call.object
        ray == call.ray
        hit == /\ ~IsNan(triangle.normal.x)
               /\ ToL(Abs(Dot(triangle.normal, ray.dir))) >= TOLERANCE
               /\ TriangleT(triangle, ray) > 0
               /\ WeightsInUnitRange(triangle, point_at_t(ray, TriangleT(triangle, ray)))
    IN  result.value = IF hit THEN Some(TriangleT(triangle, ray)) ELSE None

\* C17: Triangle::get_intersection returns t if and only if the ray is not
\* parallel to the triangle's plane (|dir.n| >= tolerance), t > 0, and the
\* three barycentric weights of the hit point, which add up to 1, all lie in
\* [0,1]; in every other case it returns none.
TriangleHitIffInside == result.op = "get_intersection" => TriangleAsStated

\* a hit on an edge of the triangle, where one weight is 0
TriangleHitOnEdge ==
    /\ result.op = "get_intersection"
    /\ call.object.kind = "triangle"
    /\ result.value.some
    /\ LET p == point_at_t(call.ray, result.value.t)
           triangle == call.object
       IN  \/ EdgeWeight(triangle, triangle.a, triangle.b, p) = 0
           \/ EdgeWeight(triangle, triangle.b, triangle.c, p) = 0
           \/ EdgeWeight(triangle, triangle.c, triangle.a, p) = 0

----------------------------------------------------------------------------
(* Cylinder and Cone (shapes.rs) *)

\* Cylinder::new, Cone::new
NewCylinder(anchor, dir, r, length, params) ==
    [kind |-> "cylinder", ray |-> Ray(anchor, Normalize(dir)), r |-> r,
     length |-> length, params |-> params]
NewCone(anchor, dir, length, k1, k2, params) ==
    [kind |-> "cone", ray |-> Ray(anchor, Normalize(dir)), length |-> length,
     slope |-> FDiv(k2, k1), params |-> params]

\* Cylinder::get_length_at_inter, Cone::get_length_at_inter
get_length_at_inter(shape, intersection) ==
    Dot(VSub(intersection, shape.ray.anchor), shape.ray.dir)

\* self.get_length_at_inter(ray.point_at_t(t)): NaN when t is
LengthAtT(shape, ray, t) ==
    IF IsNan(t) THEN NaN ELSE get_length_at_inter(shape, point_at_t(ray, t))

\* the ray in the frame whose origin is the shape's anchor and whose y axis
\* is the shape's axis (shapes.rs:466-485, 601-620)
FixedRay(shape, ray) ==
    LET displaced_anchor == translation(ray.anchor, -shape.ray.anchor.x,
                                        -shape.ray.anchor.y, -shape.ray.anchor.z)
        rotation == to_align(shape.ray.dir, Vec3(0, One, 0))
    IN  Ray(apply_matrix(displaced_anchor, rotation), apply_matrix(ray.dir, rotation))

\* the two roots (-b -+ determinant) / (2a) of shapes.rs:496-502, 632-638:
\* none when the determinant is NaN
RootsWith(a, b, determinant) ==
    IF IsNan(determinant) THEN None
    ELSE [some |-> TRUE,
          t1 |-> FDiv(-b - determinant, 2 * a),
          t2 |-> FDiv(-b + determinant, 2 * a)]
QuadraticRoots(a, b, c) == RootsWith(a, b, FSqrt(b * b - FMul(4 * a, c)))

\* t_d <= self.length && t_d > 0.0
AlongAxis(t_d, length) == FLe(t_d, length) /\ FGt(t_d, 0)

\* the choice between the two roots of shapes.rs:507-521 and 643-657, the
\* same code in both
SelectRoot(t1, t2, t1_d, t2_d, length) ==
    IF FGt(t1, 0)
    THEN IF AlongAxis(t1_d, length) THEN Some(t1)
         ELSE IF AlongAxis(t2_d, length) THEN Some(t2)
         ELSE None
    ELSE IF FLt(t2, 0) THEN None
    ELSE IF AlongAxis(t2_d, length) THEN Some(t2)
    ELSE None

\* the coefficients of the quadratic of a cylinder and of a cone
\* of the ray already fixed to the shape's frame
CylinderQuadratic(cylinder, fixed) ==
    [a |-> FMul(fixed.dir.x, fixed.dir.x) + FMul(fixed.dir.z, fixed.dir.z),
     b |-> 2 * (FMul(fixed.dir.x, fixed.anchor.x) + FMul(fixed.dir.z, fixed.anchor.z)),
     c |-> fixed.anchor.x * fixed.anchor.x + fixed.anchor.z * fixed.anchor.z
             - cylinder.r * cylinder.r]
ConeCoefficients(fixed, slope2) ==
    [a |-> FMul(fixed.dir.x, fixed.dir.x) + FMul(fixed.dir.z, fixed.dir.z)
             - FMul(FMul(fixed.dir.y, fixed.dir.y), slope2),
     b |-> 2 * (FMul(fixed.dir.x, fixed.anchor.x) + FMul(fixed.dir.z, fixed.anchor.z)
                  - FMul(FMul(fixed.dir.y, fixed.anchor.y), slope2)),
     c |-> fixed.anchor.x * fixed.anchor.x + fixed.anchor.z * fixed.anchor.z
             - FMul(fixed.anchor.y * fixed.anchor.y, slope2)]
ConeQuadratic(cone, fixed) == ConeCoefficients(fixed, FMul(cone.slope, cone.slope))

Quadratic(shape, ray) ==
    IF shape.kind = "cylinder" THEN CylinderQuadratic(shape, FixedRay(shape, ray))
    ELSE ConeQuadratic(shape, FixedRay(shape, ray))

\* the roots of the quadratic of the given coefficients
RootsOfQuadratic(q) == QuadraticRoots(q.a, q.b, q.c)

\* the roots of the quadratic of the shape and the ray
RootsOf(shape, ray) == RootsOfQuadratic(Quadratic(shape, ray))

\* Cylinder::get_intersection, Cone::get_intersection
RoundIntersection(shape, ray, roots) ==
    IF ~roots.some THEN None
    ELSE SelectRoot(roots.t1, roots.t2, LengthAtT(shape, ray, roots.t1),
                    LengthAtT(shape, ray, roots.t2), shape.length)
CylinderIntersection(cylinder, ray) ==
    RoundIntersection(cylinder, ray, RootsOf(cylinder, ray))
ConeIntersection(cone, ray) == RoundIntersection(cone, ray, RootsOf(cone, ray))

MaxLength == 40

\* cylinders and cones from the origin along +y and +x; the coordinates are
\* multiples of 15, on which the products with the components 0.6 and 0.8
\* of the 3-4-5 directions are whole
RoundInputs ==
    {NewCylinder(Vec3(0, 0, 0), d, r, MaxLength, Opaque) :
        d \in {Vec3(0, 1, 0), Vec3(2, 0, 0)}, r \in {15, 30}}
    \cup {NewCone(Vec3(0, 0, 0), d, MaxLength, One, k2, Opaque) :
        d \in {Vec3(0, 1, 0), Vec3(2, 0, 0)}, k2 \in {One, Half}}

RoundRayAnchors ==
    {Vec3(x, y, z) : x \in {-30, -15, 0, 15}, y \in {-30, 0, 15, 60}, z \in {0, 45}}
RoundRayDirs ==
    AxisDirs \cup {Vec3(6000, 8000, 0), Vec3(8000, 6000, 0), Vec3(-8000, -6000, 0)}

InitRound ==
    /\ call \in [fn : {"get_intersection"}, object : RoundInputs,
                 ray : {Ray(a, d) : a \in RoundRayAnchors, d \in RoundRayDirs}]
    /\ result = Pending
    /\ TraceIdle /\ RenderIdle

DoCylinderIntersection ==
    /\ call.fn = "get_intersection"
    /\ call.object.kind = "cylinder"
    /\ result = Pending
    /\ result' = [op |-> "get_intersection",
                  value |-> CylinderIntersection(call.object, call.ray)]
    /\ UNCHANGED <<call, traceVars, renderVars>>

DoConeIntersection ==
    /\ call.fn = "get_intersection"
    /\ call.object.kind = "cone"
    /\ result = Pending
    /\ result' = [op |-> "get_intersection",
                  value |-> ConeIntersection(call.object, call.ray)]
    /\ UNCHANGED <<call, traceVars, renderVars>>

NextRound == DoCylinderIntersection \/ DoConeIntersection

SpecRound == InitRound /\ [][NextRound]_vars

\* the roots of the call's quadratic that are strictly positive and whose
\* axial projection lies within [0, length]
QualifyingRoots ==
    LET roots == RootsOf(call.object, call.ray)
    IN  IF ~roots.some THEN {}
        ELSE {t \in {roots.t1, roots.t2} :
                /\ ~IsNan(t)
                /\ t > 0
                /\ LengthAtT(call.object, call.ray, t) >= 0
                /\ LengthAtT(call.object, call.ray, t) <= call.object.length}

RoundAsStated ==
    result.value = IF QualifyingRoots = {} THEN None
                   ELSE Some(SetMin(QualifyingRoots))

\* C16: Cylinder::get_intersection and Cone::get_intersection return the
\* nearer of the two roots that is strictly positive and whose axial
\* projection lies within [0, length], the farther root when only that one
\* qualifies, and none otherwise, for every sign of the quadratic's leading
\* coefficient.
NearestQualifyingRoot == result.op = "get_intersection" => RoundAsStated

\* the leading coefficient of the call's quadratic
LeadingCoefficient == Quadratic(call.object, call.ray).a

\* the same for a positive leading coefficient, off the rays whose root is 0
\* (the ray starts on the surface) or lies in the plane of the base
NearestQualifyingRootShallow ==
    LET roots == RootsOf(call.object, call.ray)
    IN  (/\ result.op = "get_intersection"
         /\ LeadingCoefficient > 0
         /\ roots.some =>
               /\ roots.t1 # 0 /\ roots.t2 # 0
               /\ LengthAtT(call.object, call.ray, roots.t1) # 0
               /\ LengthAtT(call.object, call.ray, roots.t2) # 0)
        => RoundAsStated

\* a negative root is returned
NegativeRootReturned ==
    result.op = "get_intersection" /\ result.value.some /\ result.value.t < 0

----------------------------------------------------------------------------
(* The accumulated opacity budget total_o1 along the nested calls of
   get_color_pixel, in scenes whose surfaces weaken it down to the threshold
   of the gate *)

FaintMirror == Material(WHITE, Tenth, 0)

BudgetObjects ==
    {ZPlane(6, FaintMirror), ZPlane(-6, FaintMirror), ZPlane(-4, Mixed),
     ZPlane(6, Opaque), ZSphere(4, 2, Glass)}

InitBudget ==
    /\ scene \in {Scene(objects, <<WhiteLight(1)>>, Half, Color(Half, 0, Half), WHITE) :
                     objects \in SeqsUpTo(BudgetObjects, MaxObjects)}
    /\ \E ray \in PrimaryRays : stack = PrimaryCall(ray)
    /\ ret = NoRet
    /\ calls = 1
    /\ PureIdle /\ RenderIdle

NextBudget == GetColorPixel

SpecBudget == InitBudget /\ [][NextBudget]_vars

\* the budget is above the minimal threshold
AboveThreshold(total_o1) == ToL(total_o1) > TOLERANCE * TOLERANCE_MUL

\* the weight by which the caller multiplies the budget of the call it waits for
StepWeight(caller) ==
    IF caller.phase = "await_transparency"
    THEN caller.inter.object.params.transparency
    ELSE caller.inter.object.params.reflection

\* a call that has hit a surface of o1 = 1, or whose budget is at or below
\* the threshold
GateShut(frame) ==
    /\ frame.inter.some
    /\ (frame.inter.object.params.o1 = One \/ ~AboveThreshold(frame.total_o1))

\* C21: along every chain of nested get_color_pixel calls total_o1 is 1 at
\* the primary call and is multiplied by the hit surface's transparency on a
\* transmission step and by its reflection on a reflection step, so it stays
\* in [0,1] and never increases; a call whose budget is at or below the
\* threshold, or whose surface has o1 = 1, makes no recursive call.
BudgetChain ==
    /\ stack # <<>> => stack[1].total_o1 = One
    /\ \A k \in 1..Len(stack) :
          /\ 0 <= stack[k].total_o1 /\ stack[k].total_o1 <= One
          /\ GateShut(stack[k]) => stack[k].made = {} /\ k = Len(stack)
    /\ \A k \in 2..Len(stack) :
          /\ stack[k].total_o1 = FMul(stack[k - 1].total_o1, StepWeight(stack[k - 1]))
          /\ stack[k].total_o1 <= stack[k - 1].total_o1
    /\ (Returns /\ GateShut(ret)) => ret.made = {} /\ ret.value = ret.object_color

\* the third nested call hits a surface of o1 < 1 with its budget down to
\* the threshold, and returns its local colour
BudgetSpent ==
    /\ Returns /\ ret.kind = "local"
    /\ ret.inter.object.params.o1 < One
    /\ ~AboveThreshold(ret.total_o1)
    /\ ret.depth = 3

----------------------------------------------------------------------------
(* get_vec3_fails applied to short texts over a small alphabet and to
   delimited lists of elements *)

MaxText == 3
MaxElements == 4

TextAlphabet == {"[", "]", "(", ")", "1", ",", " ", "-", "x"}
ElementInputs == {<<"1">>, <<"2", "0">>, <<"-", "1">>, <<" ", "1", " ">>, <<"x">>}

\* the elements joined by commas
RECURSIVE Joined(_)
Joined(elements) ==
    IF Len(elements) = 0 THEN <<>>
    ELSE IF Len(elements) = 1 THEN elements[1]
    ELSE elements[1] \o <<",">> \o Joined(Tail(elements))

ListInputs ==
    {open \o Joined(elements) \o close :
        open \in {<<>>, <<"[">>, <<"(">>, <<" ", "[">>},
        close \in {<<>>, <<"]">>, <<")">>},
        elements \in SeqsUpTo(ElementInputs, MaxElements)}

TextInputs == SeqsUpTo(TextAlphabet, MaxText) \cup ListInputs

InitVec3 ==
    /\ call \in [fn : {"get_vec3_fails"}, section : {"Sphere1"},
                 key : {"center", "normal"}, chars : TextInputs]
    /\ result = Pending
    /\ TraceIdle /\ RenderIdle

DoGetVec3Fails ==
    /\ call.fn = "get_vec3_fails"
    /\ result = Pending
    /\ result' = [op |-> "get_vec3_fails",
                  value |-> get_vec3_fails(Text(call.chars, call.section, call.key))]
    /\ UNCHANGED <<call, traceVars, renderVars>>

NextVec3 == DoGetVec3Fails

SpecVec3 == InitVec3 /\ [][NextVec3]_vars

\* the text is a number: an optional sign and at least one digit
IsNumber(s) ==
    \E sign \in {0, 1} :
        /\ Len(s) > sign
        /\ sign = 1 => s[1] = "-"
        /\ \A k \in (sign + 1)..Len(s) : IsDigit(s[k])

\* the text is three numbers separated by two commas, blanks aside
ThreeNumbers(s) ==
    \E i, j \in 1..Len(s) :
        /\ i < j
        /\ \A k \in 1..Len(s) : s[k] = "," <=> k \in {i, j}
        /\ IsNumber(Trim(SubSeq(s, 1, i - 1)))
        /\ IsNumber(Trim(SubSeq(s, i + 1, j - 1)))
        /\ IsNumber(Trim(SubSeq(s, j + 1, Len(s))))

\* three comma-separated numbers, optionally wrapped in matching [ ] or ( )
WellFormedVec3(s) ==
    \/ ThreeNumbers(s)
    \/ /\ Len(s) >= 2
       /\ <<s[1], s[Len(s)]>> \in {<<"[", "]">>, <<"(", ")">>}
       /\ ThreeNumbers(SubSeq(s, 2, Len(s) - 1))

\* the result is an error value that names the key and the section
ErrNamingKeyAndSection ==
    /\ ~result.value.ok
    /\ result.value # Panic
    /\ result.value.section = call.section
    /\ result.value.key = call.key

\* C22: get_vec3_fails returns an error value naming the key and section,
\* and never panics, for every malformed vector text (empty or blank, a bad
\* first character, a missing closing delimiter, a non-numeric element, a
\* number of elements other than 3); it returns a vector only for three
\* comma-separated numbers, optionally wrapped in matching [ ] or ( ).
Vec3TextErrorsNeverPanic ==
    result.op = "get_vec3_fails" =>
        /\ result.value # Panic
        /\ ~WellFormedVec3(Trim(call.chars)) => ErrNamingKeyAndSection
        /\ result.value.ok => WellFormedVec3(Trim(call.chars))

\* the same off the empty and the blank text
Vec3TextErrorsOffBlank ==
    Trim(call.chars) # <<>> => Vec3TextErrorsNeverPanic

\* the empty and the blank text panic
Vec3BlankPanics ==
    (result.op = "get_vec3_fails" /\ Trim(call.chars) = <<>>) => result.value = Panic

\* a vector is returned
Vec3Returned == result.op = "get_vec3_fails" /\ result.value.ok

----------------------------------------------------------------------------
(* get_shadow_intersection call by call (raytracer.rs:213-240): one frame of
   the stack per nested call, each at the k-th object of its loop *)

ShadowFrame(ray) == [ray |-> ray, k |-> 1, phase |-> "scan", inner |-> 0]

\* raytracer.rs:214
ShadowTLight(ray) == Norm(VSub(scene.lights[1].position, ray.anchor))

\* raytracer.rs:217-218: the k-th object of the frame's loop is in range
ShadowInRange(frame) ==
    /\ get_intersection(scene.objects[frame.k], frame.ray).some
    /\ InShadowRange(get_intersection(scene.objects[frame.k], frame.ray).t,
                     ShadowTLight(frame.ray))

\* raytracer.rs:223-227: the ray of the nested call
ShadowNestedRay(ray, t) ==
    advance(Ray(point_at_t(ray, t), get_refractive_dir(ray)), TOLERANCE)

\* the stack and the record of the return once the top call returns value
ShadowReturn(value) ==
    /\ ret' = [kind |-> "shadow", value |-> value, depth |-> Len(stack)]
    /\ stack' = IF Len(stack) = 1 THEN <<>>
                ELSE Append(SubSeq(stack, 1, Len(stack) - 2),
                            [stack[Len(stack) - 1] EXCEPT !.phase = "multiply",
                                                          !.inner = value])
    /\ UNCHANGED <<scene, calls, pureVars, renderVars>>

\* raytracer.rs:216-218, 236: the object is not hit in range, on to the next
ShadowSkip ==
    /\ stack # <<>> /\ Top.phase = "scan"
    /\ Top.k <= Len(scene.objects)
    /\ ~ShadowInRange(Top)
    /\ stack' = [stack EXCEPT ![Len(stack)].k = @ + 1]
    /\ UNCHANGED <<scene, ret, calls, pureVars, renderVars>>

\* raytracer.rs:220, 231-234: an occluder that lets nothing through
ShadowOpaque ==
    /\ stack # <<>> /\ Top.phase = "scan"
    /\ Top.k <= Len(scene.objects)
    /\ ShadowInRange(Top)
    /\ ~FGt(scene.objects[Top.k].params.transparency, 0)
    /\ ShadowReturn(0)

\* raytracer.rs:220-230: the nested call beyond a transparent occluder
ShadowRecurse ==
    /\ stack # <<>> /\ Top.phase = "scan"
    /\ Top.k <= Len(scene.objects)
    /\ ShadowInRange(Top)
    /\ FGt(scene.objects[Top.k].params.transparency, 0)
    /\ stack' = Append([stack EXCEPT ![Len(stack)].phase = "await"],
                       ShadowFrame(ShadowNestedRay(
                           Top.ray, get_intersection(scene.objects[Top.k], Top.ray).t)))
    /\ calls' = calls + 1
    /\ UNCHANGED <<scene, ret, pureVars, renderVars>>

\* raytracer.rs:221-234: the occluder's transparency times the nested result
ShadowMultiply ==
    /\ stack # <<>> /\ Top.phase = "multiply"
    /\ ShadowReturn(FMul(scene.objects[Top.k].params.transparency, Top.inner))

\* raytracer.rs:239: no object of the list is in range
ShadowClear ==
    /\ stack # <<>> /\ Top.phase = "scan"
    /\ Top.k > Len(scene.objects)
    /\ ShadowReturn(One)

GetShadowIntersection ==
    \/ ShadowSkip
    \/ ShadowOpaque
    \/ ShadowRecurse
    \/ ShadowMultiply
    \/ ShadowClear

ShadowPoints == {OnAxis(0), OnAxis(5)}
ShadowLights == {WhiteLight(12), WhiteLight(7)}

InitShadowCalls ==
    /\ \E point \in ShadowPoints, light \in ShadowLights :
          /\ call = [fn |-> "shadow", point |-> point, light |-> light]
          /\ stack = <<ShadowFrame(ShadowRay(point, light))>>
          /\ scene \in {Scene(objects, <<light>>, 0, BLACK, WHITE) :
                           objects \in SeqsUpTo(OccluderInputs, MaxOccluders)}
    /\ result = Pending
    /\ ret = NoRet
    /\ calls = 1
    /\ RenderIdle

NextShadowCalls == GetShadowIntersection

SpecShadowCalls == InitShadowCalls /\ [][NextShadowCalls]_vars

\* the point lies on the surface of the plane or sphere
OnSurface(object, point) ==
    IF object.kind = "sphere" THEN Dist2(point, object.center) = object.r * object.r
    ELSE Dot(VSub(point, object.anchor), object.normal) = 0

\* the surface crossings strictly between the hit point and the light: the
\* object and the distance from the hit point
SurfaceCrossings ==
    LET ray == from_2_points(call.point, call.light.position)
        t_light == Norm(VSub(call.light.position, call.point))
    IN  {c \in (1..Len(scene.objects)) \X (1..(t_light - 1)) :
            OnSurface(scene.objects[c[1]], point_at_t(ray, c[2]))}

\* how far a call is from its return
ShadowRank(frame) ==
    IF frame.phase = "scan" THEN Len(scene.objects) + 3 - frame.k ELSE 1

RECURSIVE ShadowRankSum(_)
ShadowRankSum(frames) ==
    IF frames = <<>> THEN 0
    ELSE ShadowRank(Head(frames)) + ShadowRankSum(Tail(frames))

\* a variant of the shadow test with these nested calls, after so many calls
\* made: the steps the nested calls have left and those of the calls the
\* crossings still allow
ShadowVariant(frames, made) ==
    ShadowRankSum(frames)
    + (Len(scene.objects) + 4) * (Cardinality(SurfaceCrossings) + 1 - made)

\* the nested calls and the value returned last, after so many calls made
ShadowCallsBounded(frames, made, returned) ==
    /\ made - 1 <= Cardinality(SurfaceCrossings)
    /\ Len(frames) <= made
    /\ \A k \in 2..Len(frames) :
          Dist2(frames[k].ray.anchor, call.point)
              > Dist2(frames[k - 1].ray.anchor, call.point)
    /\ returned.kind = "shadow" =>
          /\ 0 <= returned.value /\ returned.value <= One
          /\ (frames = <<>> =>
                returned.value = get_shadow_intersection(
                                     ShadowRay(call.point, call.light), scene,
                                     call.light))

\* C23: get_shadow_intersection terminates (every step lowers a variant that
\* stays at or above 0) and returns a value in [0,1]; each nested shadow ray
\* starts strictly beyond the one before it and the number of nested calls
\* is at most the number of surface crossings between the hit point and the
\* light.
ShadowTerminatesInUnitRange ==
    [][/\ ShadowCallsBounded(stack, calls, ret)
       /\ ShadowCallsBounded(stack', calls', ret')
       /\ ShadowVariant(stack', calls') < ShadowVariant(stack, calls)
       /\ ShadowVariant(stack', calls') >= 0]_vars

\* the test has returned through two nested calls, one per surface of a
\* transparent sphere between the hit point and the light
ShadowThroughSphere ==
    /\ stack = <<>> /\ ret.kind = "shadow"
    /\ calls = 3
    /\ Cardinality(SurfaceCrossings) = 2
    /\ ret.value > 0 /\ ret.value < One

----------------------------------------------------------------------------
(* One pixel of raytrace, from its primary ray to set_color and plot_pixel,
   under lights and an ambient term the configuration does not clamp *)

\* lights of intensity 0, 1 and 3 whose attenuation is 1/c_1: -1, 1 (the
\* quotient by 0 capped by min) and 1
RangeLights ==
    {Light(OnAxis(1), intensity, c_1, 0, 0, WHITE) :
        intensity \in {0, One, 3 * One}, c_1 \in {-One, 0, One}}

RangeAmbients == {-One, Half, 2 * One}

RangeObjects == {ZPlane(6, Glossy), ZPlane(-4, Mixed), ZPlane(-8, HalfMirror)}

RangeObservers ==
    {Observer(OnAxis(0), OnAxis(3), OnAxis(3)),
     Observer(OnAxis(0), OnAxis(-3), OnAxis(-3))}

InitRange ==
    /\ scene \in {Scene(objects, lights, ambient, Color(Half, 0, Half), WHITE) :
                     objects \in SeqsUpTo(RangeObjects, MaxObjects),
                     lights \in SeqsUpTo(RangeLights, 1),
                     ambient \in RangeAmbients}
    /\ observer \in RangeObservers
    /\ screen = NewScreen(1, 1)
    /\ writes = <<<<>>>>
    /\ loop = [pc |-> "pixel", i |-> 0, j |-> 0]
    /\ stack = <<>> /\ ret = NoRet /\ calls = 0
    /\ PureIdle

NextRange ==
    \/ CastPrimaryRay
    \/ GetColorPixel
    \/ Paint

SpecRange == InitRange /\ [][NextRange]_vars

\* round(255 * c)
RoundedByte(c) == RoundDiv(255 * c, CScale)

\* the pixel has been painted
Painted == loop.pc = "column_end"

\* C24: every colour get_color_pixel returns, at every recursion level, has
\* its three channels in [0,1], for any light intensity >= 0, any ambient
\* intensity and any attenuation coefficients; the byte set_color stores for
\* each channel is round(255*c), in 0..255, with no saturation or wrap-around.
ReturnedColoursInUnitRange ==
    /\ Returns => ColorInRange(ret.value)
    /\ \A k \in 1..Len(stack) :
          stack[k].phase # "enter" =>
              /\ ColorInRange(stack[k].object_color)
              /\ ColorInRange(stack[k].transparency_c)
              /\ ColorInRange(stack[k].reflection_c)
    /\ Painted =>
          /\ screen.color = <<RoundedByte(ret.value.r), RoundedByte(ret.value.g),
                              RoundedByte(ret.value.b)>>
          /\ \A c \in 1..3 : screen.color[c] \in 0..255
          /\ screen.framebuffer[1] = screen.color

\* a composite colour painted under a light of intensity 3 and a negative
\* ambient term
PaintedUnderStrongLight ==
    /\ Painted
    /\ ret.kind = "composite"
    /\ scene.ambient < 0
    /\ scene.lights # <<>> /\ scene.lights[1].intensity > One
    /\ screen.color # <<0, 0, 0>>

----------------------------------------------------------------------------
(* The composite of a call none of whose branches recurses, on surfaces of
   reflection 0.7 that use up the budget of reflections *)

\* a surface of reflection 0.7 and the colour (0.255, 0, 1)
Shiny == Material(Color(2550, 0, One), 7 * Tenth, 0)

FallbackObjects ==
    {ZPlane(6, Shiny), ZPlane(-6, Shiny), ZPlane(6, Opaque), ZPlane(-4, Mixed)}

InitFallback ==
    /\ scene \in {Scene(objects, lights, Half, Color(Half, 0, Half), WHITE) :
                     objects \in SeqsUpTo(FallbackObjects, MaxObjects),
                     lights \in {<<>>, <<WhiteLight(1)>>}}
    /\ \E ray \in PrimaryRays : stack = PrimaryCall(ray)
    /\ ret = NoRet
    /\ calls = 1
    /\ PureIdle /\ RenderIdle

NextFallback == GetColorPixel

SpecFallback == InitFallback /\ [][NextFallback]_vars

\* the call has returned from a hit of o1 < 1 with the gate open, where
\* transparency <= tolerance and reflection <= tolerance or the budget is 0
NeitherBranchActive ==
    /\ Returns /\ ret.kind = "composite"
    /\ ret.inter.object.params.o1 < One
    /\ ToL(ret.inter.object.params.transparency) <= TOLERANCE
    /\ \/ ToL(ret.inter.object.params.reflection) <= TOLERANCE
       \/ ret.reflections = 0

\* o1 + reflection + transparency = 1
WeightsSumToOne(params) == params.o1 + params.reflection + params.transparency = One

\* the channels differ by no more than the rounding of the products
NearColor(a, b) == Abs(a.r - b.r) <= 1 /\ Abs(a.g - b.g) <= 1 /\ Abs(a.b - b.b) <= 1

\* C25 as stated: when a hit surface has o1 < 1 but neither branch recurses,
\* the composite returned equals the local colour exactly, the three weights
\* summing to 1.
FallbackCompositeIsLocal ==
    NeitherBranchActive =>
        /\ ret.made = {}
        /\ WeightsSumToOne(ret.inter.object.params)
        /\ ret.value = ret.object_color

\* C25 amended: when a hit surface has o1 < 1 but neither branch recurses,
\* the three weights sum to 1 and the composite returned equals the local
\* colour up to the rounding of the three products o1*local,
\* reflection*local and transparency*local.
FallbackCompositeNearLocal ==
    NeitherBranchActive =>
        /\ ret.made = {}
        /\ ret.reflection_c = ret.object_color
        /\ ret.transparency_c = ret.object_color
        /\ WeightsSumToOne(ret.inter.object.params)
        /\ NearColor(ret.value, ret.object_color)

\* the call at budget 0 on a surface of reflection 0.7 has returned a
\* composite that differs from its local colour in the last place
FallbackRounded ==
    /\ NeitherBranchActive
    /\ ret.reflections = 0
    /\ ret.value # ret.object_color

====
